---- MODULE Spec2Model ----
(***************************************************************************)
(* Decision layer of the multi-chain token monitor.                        *)
(*                                                                         *)
(*   Part I   AlertDistributionManager (alert_scoring_system.py): the      *)
(*            hourly budget table and the admission function               *)
(*            should_send_alert.                                           *)
(*   Part II  UnifiedMonitor (unified_monitor.py): producers               *)
(*            (process_token_discovery), the priority queue, the single    *)
(*            consumer (dispatch_alerts), the holding queue and the        *)
(*            dedup set; TelegramDispatcher (telegram_dispatcher.py): its  *)
(*            message queue and the transport; sent_alerts.json; stop(),   *)
(*            the end of run(), a kill of the process and its restart.     *)
(*   Part III TokenScorer (alert_scoring_system.py) and TokenScorer        *)
(*            (scoring/token_scorer.py) with its two caches;               *)
(*            ConfidenceCalculator (alert_scoring_system.py).              *)
(*                                                                         *)
(* Floats of the source are kept as integers: a chain share 0.40 is 40     *)
(* (percent), and int(x * share) is truncation toward zero of              *)
(* x * percent / 100 (the two agree for every budget from -600 to 12000).  *)
(***************************************************************************)
EXTENDS Integers, Sequences, FiniteSets, Bags, TLC

VARIABLES
    \* ---- AlertDistributionManager
    daily_limit,          \* self.daily_limit
    hourly_distribution,  \* self.hourly_distribution : hour -> budget
    alert_history,        \* self.alert_history, as the bag of its entries [date, hour, chain]
    alerts_sent_today,    \* self.alerts_sent_today
    now,                  \* datetime.now(): [date, hour, minute]
    result,               \* the last call of should_send_alert: its inputs, what it read, what it returned
    \* ---- UnifiedMonitor
    daily_alert_target,       \* self.daily_alert_target
    chain_alert_distribution, \* self.chain_alert_distribution : chain -> percent
    um_chain_quotas,          \* self.chain_quotas : chain -> alerts per day
    um_date,                  \* datetime.now().date()
    last_alert_reset,         \* self.stats.last_alert_reset.date()
    stats_alerts_sent_today,  \* self.stats.alerts_sent_today
    chain_alerts_sent,        \* self.chain_alerts_sent
    sent_alerts,              \* self.sent_alerts
    sent_alerts_file,         \* the keys stored in sent_alerts.json
    alert_queue,              \* self.alert_queue, the set of its tuples
    holding_queue,            \* self.holding_queue
    producer,                 \* per chain monitor: where its process_token_discovery stands
    consumer,                 \* where dispatch_alerts stands, and the tuple it holds
    enqueue_clock,            \* datetime.now() of the next alert tuple
    dispatched,               \* keys handed to telegram.send_alert since the last reset (bag)
    recorded,                 \* keys added to sent_alerts since the last reset (bag)
    um_event,                 \* the last step of a producer or of the consumer
    \* ---- the process, TelegramDispatcher, sent_alerts.json
    running,                  \* self.running
    process,                  \* "up", "down" (killed) or "exited" (run() has returned)
    crashes,                  \* how often the process was killed
    telegram_enabled,         \* self.telegram.enabled
    message_queue,            \* self.telegram.message_queue, a message being its alert tuple
    transport,                \* the calls of sendMessage: bag of [ts, key, ok]
    save_failed,              \* the last _save_sent_alerts logged an IOError
    file_torn,                \* sent_alerts.json was opened for writing and never completed
    flushed,                  \* the keys of the last completed write of sent_alerts.json
    \* ---- the two scorers
    metrics,                  \* the TokenMetrics handed to TokenScorer.calculate_score
    calculated,               \* what calculate_score returned
    token_data,               \* the dict handed to scoring.TokenScorer.score_token
    scored,                   \* what score_token returned, or that it raised
    contract_cache,           \* scoring.TokenScorer.contract_cache : (chain, address) -> score
    social_cache,             \* scoring.TokenScorer.social_cache : address -> score
    calculate_calls,          \* the calls of calculate_score so far: [token, result]
    score_calls,              \* the calls of score_token so far: [data, result]
    confidence_args,          \* the arguments handed to calculate_confidence
    confidence                \* what calculate_confidence returned

adm_vars == <<daily_limit, hourly_distribution, alert_history, alerts_sent_today, now, result>>

um_config == <<daily_alert_target, chain_alert_distribution, um_chain_quotas>>

um_vars == <<daily_alert_target, chain_alert_distribution, um_chain_quotas, um_date,
             last_alert_reset, stats_alerts_sent_today, chain_alerts_sent, sent_alerts,
             sent_alerts_file, alert_queue, holding_queue, producer, consumer,
             enqueue_clock, dispatched, recorded, um_event>>

lc_vars == <<running, process, crashes, telegram_enabled, message_queue, transport,
             save_failed, file_torn, flushed>>

sc_vars == <<metrics, calculated, token_data, scored, contract_cache, social_cache,
             calculate_calls, score_calls, confidence_args, confidence>>

vars == <<adm_vars, um_vars, lc_vars, sc_vars>>

-----------------------------------------------------------------------------
(* Bounds of the model *)

MaxDate == 1            \* calendar days 0..MaxDate
MaxCrash == 1           \* kills of the process
MaxHistory == 4         \* entries of alert_history in the general specification
MaxBurst == 26          \* entries of alert_history in the small-target specification
MinDailyTarget == 24    \* smallest daily target the distribution is built for
MaxDailyTarget == 600   \* largest daily target the distribution is built for
MaxDay == 1             \* UnifiedMonitor: local dates 0..MaxDay
MaxEnqueue == 3         \* UnifiedMonitor: alert tuples put by the producers
MaxCalls == 3           \* the scorers: calls of one scorer object
MaxBudgetTarget == 60   \* UnifiedMonitor: the daily targets 0..MaxBudgetTarget, and 500

Dates == 0..MaxDate
Hours == 0..23
ModelHours == {3, 12}           \* hours at which the clock is read
ModelMinutes == {0, 30, 59}         \* minutes at which the clock is read
Scores == {55, 60, 90, 100}
ModelChains == {"solana", "bnb"}
QuotaLimits == {465, 466, 468, 500}   \* daily limits whose 24 budgets are all >= 0
BurstLimits == {24}
BurstHours == {9}
BurstMinutes == {59}
BurstScores == {90, 100}
MonitorChains == {"solana", "bnb"}      \* the enabled chain monitors
Addresses == {"a1", "a2"}               \* token addresses a monitor yields
MonitorScores == {55, 60, 80}           \* scores TokenScorer.score_token returns
MonitorTargets == {2}                   \* DAILY_ALERT_TARGET
MonitorDistributions ==                 \* *_ALERT_PERCENTAGE
    {[c \in {"solana", "ethereum", "bnb", "base"} |->
        IF c \in {"solana", "bnb"} THEN 50 ELSE 0],
     [c \in {"solana", "ethereum", "bnb", "base"} |->
        IF c = "solana" THEN 100 ELSE 0]}

-----------------------------------------------------------------------------
(* Part I: AlertDistributionManager *)

Chain == {"solana", "ethereum", "bnb", "base"}

\* self.chain_quotas, in percent
chain_quotas == [c \in Chain |->
    CASE c = "solana" -> 40
      [] c = "ethereum" -> 25
      [] c = "bnb" -> 20
      [] c = "base" -> 15]

\* int(num / den): truncation toward zero
IntTrunc(num, den) == IF num >= 0 THEN num \div den ELSE -((-num) \div den)

\* the per-hour allocation before the adjustment
HourAlerts(hour) ==
    IF 9 <= hour /\ hour <= 11 THEN 30
    ELSE IF 14 <= hour /\ hour <= 16 THEN 30
    ELSE IF 20 <= hour /\ hour <= 22 THEN 25
    ELSE IF 0 <= hour /\ hour <= 6 THEN 10
    ELSE 20

RECURSIVE TotalAllocated(_)
TotalAllocated(n) == IF n = 0 THEN 0 ELSE HourAlerts(n - 1) + TotalAllocated(n - 1)

RECURSIVE SumHours(_, _)
SumHours(f, n) == IF n = 0 THEN 0 ELSE f[n - 1] + SumHours(f, n - 1)

\* a plausible slip: the adjustment is computed against the default 500
calculate_hourly_distribution_default500(limit) ==
    [hour \in Hours |->
        IF hour = 12 THEN HourAlerts(hour) + (500 - TotalAllocated(24))
        ELSE HourAlerts(hour)]

calculate_hourly_distribution(limit) ==
    [hour \in Hours |->
        IF hour = 12 THEN HourAlerts(hour) + (limit - TotalAllocated(24))
        ELSE HourAlerts(hour)]

EmptyHistory == EmptyBag

\* len([a for a in history if a['date'] == date and a['hour'] == hour and a['chain'] == chain])
ChainAlerts(history, date, hour, chain) ==
    CopiesIn([date |-> date, hour |-> hour, chain |-> chain], history)

NoResult == [called |-> FALSE, score |-> 0, chain |-> "solana",
             date |-> 0, hour |-> 0, minute |-> 0,
             hourly_quota |-> 0, alerts_this_hour |-> 0, chain_alerts |-> 0,
             should_send |-> FALSE, threshold |-> 0]

\* __init__(daily_limit)
ManagerInit(limit) ==
    /\ daily_limit = limit
    /\ alerts_sent_today = 0
    /\ hourly_distribution = calculate_hourly_distribution(limit)
    /\ alert_history = EmptyHistory
    /\ result = NoResult

\* len([a for a in alert_history if a['hour'] == hour and a['date'] == date]);
\* every entry is appended by should_send_alert, so len(alert_history) = alerts_sent_today
AlertsThisHour(history, date, hour) ==
    ChainAlerts(history, date, hour, "solana") + ChainAlerts(history, date, hour, "ethereum")
        + ChainAlerts(history, date, hour, "bnb") + ChainAlerts(history, date, hour, "base")

RECURSIVE SumDay(_, _, _)
SumDay(history, date, n) ==
    IF n = 0 THEN 0 ELSE AlertsThisHour(history, date, n - 1) + SumDay(history, date, n - 1)

\* the entries of one calendar day
AlertsOnDate(history, date) == SumDay(history, date, 24)

QuotaClosedStrict(remaining_quota) == remaining_quota < 0

\* if remaining_quota <= 0: return False, 100
QuotaClosed(remaining_quota) == remaining_quota <= 0

BaseThresholdInclusive(remaining_quota, minutes_remaining) ==
    LET m == IF minutes_remaining > 1 THEN minutes_remaining ELSE 1
    IN IF remaining_quota >= m THEN 50
       ELSE IF 2 * remaining_quota >= m THEN 60
       ELSE 70

\* alerts_per_minute_needed = remaining_quota / max(1, minutes_remaining), three bands
BaseThreshold(remaining_quota, minutes_remaining) ==
    LET m == IF minutes_remaining > 1 THEN minutes_remaining ELSE 1
    IN IF remaining_quota > m THEN 50
       ELSE IF 2 * remaining_quota > m THEN 60
       ELSE 70

\* int(hourly_quota * self.chain_quotas[chain])
ChainQuota(hourly_quota, chain) == IntTrunc(hourly_quota * chain_quotas[chain], 100)

ChainThresholdStrict(base_threshold, chain_remaining) ==
    IF chain_remaining < 0 THEN base_threshold + 20 ELSE base_threshold

ChainThresholdPenalty30(base_threshold, chain_remaining) ==
    IF chain_remaining <= 0 THEN base_threshold + 30 ELSE base_threshold

\* if chain_remaining <= 0: threshold = base_threshold + 20
ChainThreshold(base_threshold, chain_remaining) ==
    IF chain_remaining <= 0 THEN base_threshold + 20 ELSE base_threshold

\* should_send = score >= threshold
ScoreMeets(score, threshold) == score >= threshold

\* a plausible slip: the closed hour falls through to the score comparison
DecideClosedCompares(score, chain, t, history, distribution) ==
    LET hourly_quota == distribution[t.hour]
        alerts_this_hour == AlertsThisHour(history, t.date, t.hour)
        remaining_quota == hourly_quota - alerts_this_hour
        chain_alerts == ChainAlerts(history, t.date, t.hour, chain)
        threshold == IF QuotaClosed(remaining_quota) THEN 100
                     ELSE ChainThreshold(BaseThreshold(remaining_quota, 60 - t.minute),
                                         ChainQuota(hourly_quota, chain) - chain_alerts)
    IN [should_send |-> ScoreMeets(score, threshold), threshold |-> threshold]

\* the decision of should_send_alert: (should_send, threshold)
Decide(score, chain, t, history, distribution) ==
    LET hourly_quota == distribution[t.hour]
        alerts_this_hour == AlertsThisHour(history, t.date, t.hour)
        remaining_quota == hourly_quota - alerts_this_hour
    IN IF QuotaClosed(remaining_quota)
       THEN [should_send |-> FALSE, threshold |-> 100]
       ELSE LET minutes_remaining == 60 - t.minute
                base_threshold == BaseThreshold(remaining_quota, minutes_remaining)
                chain_alerts == ChainAlerts(history, t.date, t.hour, chain)
                chain_remaining == ChainQuota(hourly_quota, chain) - chain_alerts
                threshold == ChainThreshold(base_threshold, chain_remaining)
            IN [should_send |-> ScoreMeets(score, threshold), threshold |-> threshold]

RecordAlertDateOnly(history, t, chain) ==
    history (+) SetToBag({[date |-> t.date, hour |-> 12, chain |-> chain]})

\* self.alert_history.append({'date', 'hour', 'chain', ...})
RecordAlert(history, t, chain) ==
    history (+) SetToBag({[date |-> t.date, hour |-> t.hour, chain |-> chain]})

\* should_send_alert(score, chain)
should_send_alert(score, chain) ==
    LET d == Decide(score, chain, now, alert_history, hourly_distribution)
    IN /\ result' = [called |-> TRUE, score |-> score, chain |-> chain,
                     date |-> now.date, hour |-> now.hour, minute |-> now.minute,
                     hourly_quota |-> hourly_distribution[now.hour],
                     alerts_this_hour |-> AlertsThisHour(alert_history, now.date, now.hour),
                     chain_alerts |-> ChainAlerts(alert_history, now.date, now.hour, chain),
                     should_send |-> d.should_send, threshold |-> d.threshold]
       /\ IF d.should_send
          THEN /\ alert_history' = RecordAlert(alert_history, now, chain)
               /\ alerts_sent_today' = alerts_sent_today + 1
          ELSE UNCHANGED <<alert_history, alerts_sent_today>>
       /\ UNCHANGED <<daily_limit, hourly_distribution, now>>
       /\ UNCHANGED <<um_vars, lc_vars, sc_vars>>

\* t1 is strictly before t2
Before(t1, t2) ==
    \/ t1.date < t2.date
    \/ t1.date = t2.date /\ t1.hour < t2.hour
    \/ t1.date = t2.date /\ t1.hour = t2.hour /\ t1.minute < t2.minute

\* the wall clock advances between two calls
ClockAdvance(hours, minutes) ==
    /\ \E t \in [date : Dates, hour : hours, minute : minutes] :
          /\ Before(now, t)
          /\ now' = t
    /\ UNCHANGED <<daily_limit, hourly_distribution, alert_history, alerts_sent_today, result>>
    /\ UNCHANGED <<um_vars, lc_vars, sc_vars>>

\* AlertDistributionManager(daily_limit): a manager is constructed anew
Construct ==
    /\ \E limit \in MinDailyTarget..MaxDailyTarget :
          /\ daily_limit' = limit
          /\ hourly_distribution' = calculate_hourly_distribution(limit)
    /\ alerts_sent_today' = 0
    /\ alert_history' = EmptyHistory
    /\ result' = NoResult
    /\ UNCHANGED now
    /\ UNCHANGED <<um_vars, lc_vars, sc_vars>>

-----------------------------------------------------------------------------
(* Part II: UnifiedMonitor *)

high_confidence_threshold == 75
medium_confidence_threshold == 60
minimum_alert_score == 60

\* should_send_alert: the least base_threshold
lowest_base_threshold == 50

\* the *_ALERT_PERCENTAGE defaults
DefaultDistribution == [c \in Chain |->
    CASE c = "solana" -> 50
      [] c = "ethereum" -> 0
      [] c = "bnb" -> 45
      [] c = "base" -> 5]

\* quotas rounded to the nearest alert
calculate_chain_quotas_rounded(target, distribution) ==
    [c \in Chain |-> IntTrunc(target * distribution[c] + 50, 100)]

\* get_status: expected = int(self.daily_limit * self.chain_quotas[chain])
get_status_expected(limit, chain) == IntTrunc(limit * chain_quotas[chain], 100)

\* _calculate_chain_quotas: int(daily_alert_target * percentage / 100)
calculate_chain_quotas(target, distribution) ==
    [c \in Chain |-> IntTrunc(target * distribution[c], 100)]

\* _get_alert_key: the chain and the token address
get_alert_key(chain, address) == <<chain, address>>

NoKey == <<"none", "none">>

NoAlert == [priority_num |-> 0, neg_score |-> 0, ts |-> 0, key |-> NoKey]

NoEvent == [kind |-> "none", score |-> 0, quota_full |-> FALSE, count |-> 0]

\* priority_num of process_token_discovery: 0 high, 1 medium, 2 low
PriorityNum(score) ==
    IF score >= high_confidence_threshold THEN 0
    ELSE IF score >= medium_confidence_threshold THEN 1
    ELSE 2

\* alert_tuple = (priority_num, -score, datetime.now(), {...})
AlertTuple(score, ts, key) ==
    [priority_num |-> PriorityNum(score), neg_score |-> 0 - score, ts |-> ts, key |-> key]

\* a queue that hands out the tuples in the order of their arrival
TupleLessByArrival(a, b) == a.ts < b.ts

\* the order of the tuples in the PriorityQueue
TupleLess(a, b) ==
    \/ a.priority_num < b.priority_num
    \/ a.priority_num = b.priority_num /\ a.neg_score < b.neg_score
    \/ a.priority_num = b.priority_num /\ a.neg_score = b.neg_score /\ a.ts < b.ts

\* alert_queue.get(): the least tuple
QueueGet(queue) == CHOOSE a \in queue : \A b \in queue \ {a} : TupleLess(a, b)

Range(seq) == {seq[i] : i \in DOMAIN seq}

\* the daily quota and the chain's quota are both used up
QuotaFull(chain) ==
    /\ stats_alerts_sent_today >= daily_alert_target
    /\ chain_alerts_sent[chain] >= um_chain_quotas[chain]

save_sent_alerts_skipped(file, sent, ok) == file

\* _save_sent_alerts: open(..., 'w') and json.dump write the set (ok), or open
\* raises an IOError, which is logged and leaves the file as it was
save_sent_alerts(file, sent, ok) == IF ok THEN sent ELSE file

\* _save_sent_alerts: the file holds the set, or an IOError leaves it as it was
SaveOutcomes(file, sent) == {save_sent_alerts(file, sent, ok) : ok \in BOOLEAN}

\* _load_sent_alerts: set(json.load(f)); a file that does not parse
\* (json.JSONDecodeError) or does not exist gives the empty set
load_sent_alerts(file, torn) == IF torn THEN {} ELSE file

reset_daily_stats_keeps(count) == count

\* MonitoringStats.reset_daily_stats: self.alerts_sent_today = 0
reset_daily_stats(count) == 0

HoldDiscards(holding, alert_tuple) == holding

\* self.holding_queue.append(alert_tuple)
Hold(holding, alert_tuple) == Append(holding, alert_tuple)

\* a counter update that is lost
IncrementLost(count) == count

\* alerts_sent_today += 1, chain_alerts_sent[chain] += 1
Increment(count) == count + 1

RecordSentNothing(sent, alert_key) == sent

\* self.sent_alerts.add(alert_key)
RecordSent(sent, alert_key) == sent \cup {alert_key}

send_alert_propagates(enabled) == enabled

\* TelegramDispatcher.send_alert: whatever its body raises is caught by its own
\* "except Exception" and logged, so the call never raises to dispatch_alerts
send_alert_raises(enabled) == FALSE

\* TelegramDispatcher.send_alert: nothing when disabled, else the formatted
\* message is put on the unbounded message_queue
send_alert(enabled, queue, message) == IF enabled THEN Append(queue, message) ELSE queue

\* TelegramDispatcher.__init__ and UnifiedMonitor.run up to its task group, on a
\* machine whose sent_alerts.json (if any) is the one of MonitorInit
DispatcherInit(enabled) ==
    /\ running = TRUE
    /\ process = "up"
    /\ crashes = 0
    /\ telegram_enabled = enabled
    /\ message_queue = <<>>
    /\ transport = EmptyBag
    /\ save_failed = FALSE
    /\ file_torn = FALSE
    /\ flushed = {}

\* UnifiedMonitor.__init__ with no sent_alerts.json on disk
MonitorInit(target, distribution) ==
    /\ daily_alert_target = target
    /\ chain_alert_distribution = distribution
    /\ um_chain_quotas = calculate_chain_quotas(target, distribution)
    /\ um_date = 0
    /\ last_alert_reset = 0
    /\ stats_alerts_sent_today = 0
    /\ chain_alerts_sent = [c \in Chain |-> 0]
    /\ sent_alerts_file = {}
    /\ sent_alerts = {}
    /\ alert_queue = {}
    /\ holding_queue = <<>>
    /\ producer = [p \in MonitorChains |-> [pc |-> "idle", address |-> "none"]]
    /\ consumer = [pc |-> "loop", alert |-> NoAlert]
    /\ enqueue_clock = 0
    /\ dispatched = EmptyBag
    /\ recorded = EmptyBag
    /\ um_event = NoEvent

\* process_token_discovery up to its first await: the key, the check of sent_alerts
Discover(p, address) ==
    /\ process = "up"
    /\ running
    /\ producer[p].pc = "idle"
    /\ enqueue_clock + Cardinality({q \in MonitorChains : producer[q].pc = "enriching"}) < MaxEnqueue
    /\ IF get_alert_key(p, address) \in sent_alerts
       THEN UNCHANGED producer
       ELSE producer' = [producer EXCEPT ![p] = [pc |-> "enriching", address |-> address]]
    /\ UNCHANGED <<um_config, um_date, last_alert_reset, stats_alerts_sent_today,
                   chain_alerts_sent, sent_alerts, sent_alerts_file, alert_queue,
                   holding_queue, consumer, enqueue_clock, dispatched, recorded, um_event>>
    /\ UNCHANGED <<adm_vars, lc_vars, sc_vars>>

\* process_token_discovery after enrich_token_data and score_token have returned
ScoreAndEnqueue(p, score) ==
    /\ process = "up"
    /\ producer[p].pc = "enriching"
    /\ LET key == get_alert_key(p, producer[p].address)
       IN IF score >= minimum_alert_score
          THEN /\ alert_queue' = alert_queue \cup {AlertTuple(score, enqueue_clock, key)}
               /\ enqueue_clock' = enqueue_clock + 1
               /\ um_event' = [kind |-> "enqueued", score |-> score,
                               quota_full |-> QuotaFull(p), count |-> 0]
          ELSE /\ UNCHANGED <<alert_queue, enqueue_clock>>
               /\ um_event' = [kind |-> "below_minimum", score |-> score,
                               quota_full |-> QuotaFull(p), count |-> 0]
    /\ producer' = [producer EXCEPT ![p] = [pc |-> "idle", address |-> "none"]]
    /\ UNCHANGED <<um_config, um_date, last_alert_reset, stats_alerts_sent_today,
                   chain_alerts_sent, sent_alerts, sent_alerts_file, holding_queue,
                   consumer, dispatched, recorded>>
    /\ UNCHANGED <<adm_vars, lc_vars, sc_vars>>

RequeueHeldNone(queue, holding) == queue

\* for alert_tuple in self.holding_queue: await self.alert_queue.put(alert_tuple)
RequeueHeld(queue, holding) == queue \cup Range(holding)

\* dispatch_alerts, the head of the loop: the daily reset when the date has changed
LoopTop ==
    /\ process = "up"
    /\ consumer.pc = "loop"
    /\ running
    /\ IF um_date > last_alert_reset
       THEN \E ok \in BOOLEAN :
            LET cleared == reset_daily_stats(stats_alerts_sent_today)
            IN /\ stats_alerts_sent_today' = cleared
               /\ last_alert_reset' = um_date
               /\ chain_alerts_sent' = [c \in Chain |-> 0]
               /\ sent_alerts' = {}
               /\ sent_alerts_file' = save_sent_alerts(sent_alerts_file, {}, ok)
               /\ save_failed' = ~ok
               /\ file_torn' = (IF ok THEN FALSE ELSE file_torn)
               /\ flushed' = (IF ok THEN {} ELSE flushed)
               \* the re-queue runs after the lines above: it finds the counter cleared
               /\ alert_queue' = RequeueHeld(alert_queue, holding_queue)
               /\ holding_queue' = <<>>
               /\ dispatched' = EmptyBag
               /\ recorded' = EmptyBag
               /\ um_event' = [kind |-> "reset", score |-> 0,
                               quota_full |-> (cleared >= daily_alert_target),
                               count |-> Len(holding_queue)]
       ELSE UNCHANGED <<stats_alerts_sent_today, last_alert_reset, chain_alerts_sent,
                        sent_alerts, sent_alerts_file, alert_queue, holding_queue,
                        dispatched, recorded, um_event, save_failed, file_torn, flushed>>
    /\ consumer' = [consumer EXCEPT !.pc = "get"]
    /\ UNCHANGED <<um_config, um_date, producer, enqueue_clock>>
    /\ UNCHANGED <<running, process, crashes, telegram_enabled, message_queue, transport>>
    /\ UNCHANGED <<adm_vars, sc_vars>>

\* a check that lets one more alert through
quota_hit_late(sent, quota) == sent > quota

\* if self.stats.alerts_sent_today >= self.daily_alert_target, and
\* if self.chain_alerts_sent[chain] >= self.chain_quotas[chain]
quota_hit(sent, quota) == sent >= quota

ConsumerNeverChecks(alert_key) == FALSE

\* if alert_key in self.sent_alerts (the consumer's double check)
ConsumerAlreadySent(alert_key) == alert_key \in sent_alerts

\* dispatch_alerts: the tuple is taken, then dropped, held or handed to send_alert
GetAlert ==
    /\ process = "up"
    /\ consumer.pc = "get"
    /\ alert_queue # {}
    /\ LET alert_tuple == QueueGet(alert_queue)
           alert_key == alert_tuple.key
           chain == alert_key[1]
           event(kind) == [kind |-> kind, score |-> 0, quota_full |-> FALSE, count |-> 0]
       IN /\ alert_queue' = alert_queue \ {alert_tuple}
          /\ IF ConsumerAlreadySent(alert_key)
             THEN /\ consumer' = [pc |-> "loop", alert |-> NoAlert]
                  /\ um_event' = event("dropped")
                  /\ UNCHANGED <<holding_queue, dispatched>>
             ELSE IF quota_hit(stats_alerts_sent_today, daily_alert_target)
             THEN /\ holding_queue' = Hold(holding_queue, alert_tuple)
                  /\ consumer' = [pc |-> "loop", alert |-> NoAlert]
                  /\ um_event' = event("held_daily")
                  /\ UNCHANGED dispatched
             ELSE IF quota_hit(chain_alerts_sent[chain], um_chain_quotas[chain])
             THEN /\ holding_queue' = Hold(holding_queue, alert_tuple)
                  /\ consumer' = [pc |-> "loop", alert |-> NoAlert]
                  /\ um_event' = event("held_chain")
                  /\ UNCHANGED dispatched
             ELSE /\ consumer' = [pc |-> "sending", alert |-> alert_tuple]
                  /\ dispatched' = dispatched (+) SetToBag({alert_key})
                  /\ um_event' = event("sending")
                  /\ UNCHANGED holding_queue
    /\ UNCHANGED <<um_config, um_date, last_alert_reset, stats_alerts_sent_today,
                   chain_alerts_sent, sent_alerts, sent_alerts_file, producer,
                   enqueue_clock, recorded>>
    /\ UNCHANGED <<adm_vars, lc_vars, sc_vars>>

\* asyncio.wait_for(self.alert_queue.get(), timeout=5.0) times out on the empty queue
\* a get() that waits for an item without a timeout
get_blocks(queue) == FALSE

\* asyncio.wait_for(alert_queue.get(), timeout=5.0): TimeoutError on an empty queue
get_times_out(queue) == queue = {}

GetTimeout ==
    /\ process = "up"
    /\ consumer.pc = "get"
    /\ get_times_out(alert_queue)
    /\ consumer' = [consumer EXCEPT !.pc = "loop"]
    /\ UNCHANGED <<um_config, um_date, last_alert_reset, stats_alerts_sent_today,
                   chain_alerts_sent, sent_alerts, sent_alerts_file, alert_queue,
                   holding_queue, producer, enqueue_clock, dispatched, recorded, um_event>>
    /\ UNCHANGED <<adm_vars, lc_vars, sc_vars>>

\* telegram.send_alert has returned: the counters, sent_alerts.add, _save_sent_alerts
SendReturns ==
    /\ process = "up"
    /\ consumer.pc = "sending"
    /\ LET alert_key == consumer.alert.key
           chain == alert_key[1]
       IN IF send_alert_raises(telegram_enabled)
          THEN \* except Exception: the tuple goes to the holding queue; finally: task_done
               /\ holding_queue' = Hold(holding_queue, consumer.alert)
               /\ consumer' = [pc |-> "loop", alert |-> NoAlert]
               /\ um_event' = [kind |-> "send_error", score |-> 0,
                               quota_full |-> FALSE, count |-> 0]
               /\ UNCHANGED <<stats_alerts_sent_today, chain_alerts_sent, sent_alerts,
                              sent_alerts_file, recorded, message_queue, save_failed,
                              file_torn, flushed>>
          ELSE \E ok \in BOOLEAN :
               LET sent == RecordSent(sent_alerts, alert_key)
               IN /\ message_queue' = send_alert(telegram_enabled, message_queue, consumer.alert)
                  /\ stats_alerts_sent_today' = Increment(stats_alerts_sent_today)
                  /\ chain_alerts_sent' = [chain_alerts_sent EXCEPT ![chain] = Increment(@)]
                  /\ sent_alerts' = sent
                  /\ sent_alerts_file' = save_sent_alerts(sent_alerts_file, sent, ok)
                  /\ save_failed' = ~ok
                  /\ file_torn' = (IF ok THEN FALSE ELSE file_torn)
                  /\ flushed' = (IF ok THEN sent ELSE flushed)
                  /\ recorded' = recorded (+) SetToBag({alert_key})
                  /\ um_event' = [kind |-> "sent", score |-> 0,
                                  quota_full |-> FALSE, count |-> 0]
                  /\ consumer' = [consumer EXCEPT !.pc = "sleeping"]
                  /\ UNCHANGED holding_queue
    /\ UNCHANGED <<um_config, um_date, last_alert_reset, alert_queue,
                   producer, enqueue_clock, dispatched>>
    /\ UNCHANGED <<running, process, crashes, telegram_enabled, transport>>
    /\ UNCHANGED <<adm_vars, sc_vars>>

\* asyncio.sleep(0.5) has returned: alert_queue.task_done(), the next iteration
SleepDone ==
    /\ process = "up"
    /\ consumer.pc = "sleeping"
    /\ consumer' = [pc |-> "loop", alert |-> NoAlert]
    /\ UNCHANGED <<um_config, um_date, last_alert_reset, stats_alerts_sent_today,
                   chain_alerts_sent, sent_alerts, sent_alerts_file, alert_queue,
                   holding_queue, producer, enqueue_clock, dispatched, recorded, um_event>>
    /\ UNCHANGED <<adm_vars, lc_vars, sc_vars>>

\* the local date changes
DateRollover ==
    /\ um_date < MaxDay
    /\ um_date' = um_date + 1
    /\ UNCHANGED <<um_config, last_alert_reset, stats_alerts_sent_today,
                   chain_alerts_sent, sent_alerts, sent_alerts_file, alert_queue,
                   holding_queue, producer, consumer, enqueue_clock, dispatched,
                   recorded, um_event>>
    /\ UNCHANGED <<adm_vars, lc_vars, sc_vars>>

\* what sendMessage can do: status 200, another status, or an exception of the session
DeliveryOutcomes == {"ok", "non200", "raised"}

\* _send_raw_message: a status other than 200 and an exception are both logged
\* and nothing else; the message counts as carried only on status 200
send_raw_message(outcome) == outcome = "ok"

\* the keys whose message Telegram accepted, and those whose message it did not
Delivered == {e.key : e \in {x \in BagToSet(transport) : x.ok}}

DeliveryFailed == {e.key : e \in {x \in BagToSet(transport) : ~x.ok}}

\* TelegramDispatcher._process_queue: one message is taken and sent
ProcessQueue(outcome) ==
    /\ process = "up"
    /\ telegram_enabled
    /\ message_queue # <<>>
    /\ LET message == Head(message_queue)
       IN transport' = transport (+) SetToBag({[ts |-> message.ts, key |-> message.key,
                                                ok |-> send_raw_message(outcome)]})
    /\ message_queue' = Tail(message_queue)
    /\ UNCHANGED <<running, process, crashes, telegram_enabled, save_failed, file_torn, flushed>>
    /\ UNCHANGED <<adm_vars, um_vars, sc_vars>>

\* stop(), reached from signal_handler on SIGTERM: self.running = False
Stop ==
    /\ process = "up"
    /\ running
    /\ running' = FALSE
    /\ UNCHANGED <<process, crashes, telegram_enabled, message_queue, transport,
                   save_failed, file_torn, flushed>>
    /\ UNCHANGED <<adm_vars, um_vars, sc_vars>>

\* dispatch_alerts: "while self.running" is false, the coroutine returns
LoopExit ==
    /\ process = "up"
    /\ consumer.pc = "loop"
    /\ ~running
    /\ consumer' = [pc |-> "done", alert |-> NoAlert]
    /\ UNCHANGED <<um_config, um_date, last_alert_reset, stats_alerts_sent_today,
                   chain_alerts_sent, sent_alerts, sent_alerts_file, alert_queue,
                   holding_queue, producer, enqueue_clock, dispatched, recorded, um_event>>
    /\ UNCHANGED <<adm_vars, lc_vars, sc_vars>>

\* run(): the tasks have returned; the finally block sleeps, closes the aiohttp
\* session and ends; asyncio.run cancels what is left (_process_queue). Nothing
\* is written: the queues and the message queue are left as they were in memory
Exit ==
    /\ process = "up"
    /\ ~running
    /\ consumer.pc = "done"
    /\ \A p \in Chain \cap DOMAIN producer : producer[p].pc = "idle"
    /\ process' = "exited"
    /\ UNCHANGED <<running, crashes, telegram_enabled, message_queue, transport,
                   save_failed, file_torn, flushed>>
    /\ UNCHANGED <<adm_vars, um_vars, sc_vars>>

\* a write of sent_alerts.json is the next thing the consumer does
WritePending ==
    \/ consumer.pc = "sending"
    \/ consumer.pc = "loop" /\ running /\ um_date > last_alert_reset

\* the process is killed. Killed inside _save_sent_alerts, after open(..., 'w')
\* has truncated the file and before json.dump has completed (torn), it leaves
\* a file that does not parse; killed anywhere else it leaves the file as it is
Crash(torn) ==
    /\ process = "up"
    /\ crashes < MaxCrash
    /\ torn => WritePending
    /\ process' = "down"
    /\ crashes' = crashes + 1
    /\ file_torn' = (file_torn \/ torn)
    /\ sent_alerts_file' = IF torn THEN {} ELSE sent_alerts_file
    /\ UNCHANGED <<um_config, um_date, last_alert_reset, stats_alerts_sent_today,
                   chain_alerts_sent, sent_alerts, alert_queue, holding_queue, producer,
                   consumer, enqueue_clock, dispatched, recorded, um_event>>
    /\ UNCHANGED <<running, telegram_enabled, message_queue, transport, save_failed, flushed>>
    /\ UNCHANGED <<adm_vars, sc_vars>>

\* the process is started again: UnifiedMonitor.__init__ with _load_sent_alerts,
\* empty queues and zero counters, then run()
Restart ==
    /\ process = "down"
    /\ process' = "up"
    /\ running' = TRUE
    /\ sent_alerts' = load_sent_alerts(sent_alerts_file, file_torn)
    /\ stats_alerts_sent_today' = 0
    /\ chain_alerts_sent' = [c \in Chain |-> 0]
    /\ last_alert_reset' = um_date
    /\ alert_queue' = {}
    /\ holding_queue' = <<>>
    /\ message_queue' = <<>>
    /\ producer' = [p \in DOMAIN producer |-> [pc |-> "idle", address |-> "none"]]
    /\ consumer' = [pc |-> "loop", alert |-> NoAlert]
    /\ save_failed' = FALSE
    \* dispatched and recorded count per day
    /\ dispatched' = IF um_date > last_alert_reset THEN EmptyBag ELSE dispatched
    /\ recorded' = IF um_date > last_alert_reset THEN EmptyBag ELSE recorded
    /\ um_event' = [kind |-> "restart", score |-> 0, quota_full |-> FALSE,
                    count |-> IF um_date > last_alert_reset THEN 1 ELSE 0]
    /\ UNCHANGED <<um_config, um_date, sent_alerts_file, enqueue_clock>>
    /\ UNCHANGED <<crashes, telegram_enabled, transport, file_torn, flushed>>
    /\ UNCHANGED <<adm_vars, sc_vars>>

-----------------------------------------------------------------------------
(* Part III: the scorers *)

(***************************************************************************)
(* TokenScorer of alert_scoring_system.py.  A category score is kept in    *)
(* hundredths of a point (Centi), a weight in hundredths, a chain or time  *)
(* multiplier in twentieths: the total is kept in units of 1/TotalUnit of  *)
(* a point.  Amounts in USD, counts and percentages are integers; a ratio  *)
(* is in thousandths (liquidity_to_mcap_ratio, price_volatility) or in     *)
(* hundredths (whale_concentration, twitter_engagement_rate,               *)
(* social_growth_rate, sentiment_score, buy_sell_ratio).  The inputs are   *)
(* chosen so that every division below is exact.                           *)
(***************************************************************************)
Centi == 100

TotalUnit == 4000000

max2(a, b) == IF a >= b THEN a ELSE b

min2(a, b) == IF a <= b THEN a ELSE b

\* _score_liquidity
score_liquidity(token) ==
    LET amount ==
            IF token.initial_liquidity >= 5500 THEN 40 * Centi
            ELSE IF token.initial_liquidity >= 5000 THEN 30 * Centi
            ELSE IF token.initial_liquidity >= 2000 THEN 20 * Centi
            ELSE IF token.initial_liquidity >= 1000 THEN 10 * Centi
            ELSE max2(0, token.initial_liquidity \div 10)
        locked ==
            IF ~token.liquidity_locked THEN 0
            ELSE IF token.liquidity_lock_duration >= 365 THEN 30 * Centi
            ELSE IF token.liquidity_lock_duration >= 180 THEN 25 * Centi
            ELSE IF token.liquidity_lock_duration >= 90 THEN 20 * Centi
            ELSE IF token.liquidity_lock_duration >= 30 THEN 15 * Centi
            ELSE 10 * Centi
        ratio ==
            IF token.liquidity_to_mcap_ratio >= 500 THEN 20 * Centi
            ELSE IF token.liquidity_to_mcap_ratio >= 400 THEN 15 * Centi
            ELSE IF token.liquidity_to_mcap_ratio >= 50 THEN 10 * Centi
            ELSE max2(0, token.liquidity_to_mcap_ratio * 20)
        providers ==
            IF token.liquidity_providers_count >= 10 THEN 10 * Centi
            ELSE IF token.liquidity_providers_count >= 2 THEN 7 * Centi
            ELSE IF token.liquidity_providers_count >= 1 THEN 5 * Centi
            ELSE max2(0, token.liquidity_providers_count * 25)
    IN min2(100 * Centi, amount + locked + ratio + providers)

\* _score_holders
score_holders(token) ==
    LET distribution ==
            IF token.top_10_holders_percentage <= 20 THEN 50 * Centi
            ELSE IF token.top_10_holders_percentage <= 30 THEN 40 * Centi
            ELSE IF token.top_10_holders_percentage <= 40 THEN 30 * Centi
            ELSE IF token.top_10_holders_percentage <= 50 THEN 20 * Centi
            ELSE max2(0, (100 - token.top_10_holders_percentage) * 40)
        growth ==
            IF token.holder_growth_rate >= 100 THEN 30 * Centi
            ELSE IF token.holder_growth_rate >= 50 THEN 25 * Centi
            ELSE IF token.holder_growth_rate >= 20 THEN 20 * Centi
            ELSE IF token.holder_growth_rate >= 10 THEN 15 * Centi
            ELSE max2(0, token.holder_growth_rate * 150)
        buyers ==
            IF token.unique_buyers_first_hour >= 9 THEN 20 * Centi
            ELSE IF token.unique_buyers_first_hour >= 5 THEN 15 * Centi
            ELSE IF token.unique_buyers_first_hour >= 3 THEN 10 * Centi
            ELSE IF token.unique_buyers_first_hour >= 1 THEN 5 * Centi
            ELSE max2(0, (token.unique_buyers_first_hour * 500) \div 9)
        score == distribution + growth + buyers
        penalised ==
            IF token.whale_concentration > 70 THEN score \div 2
            ELSE IF token.whale_concentration > 50 THEN (score * 3) \div 4
            ELSE score
    IN min2(100 * Centi, penalised)

\* (token.audit_score / 100) * 20
AuditPoints(audit_score) == audit_score * 20

\* _score_security up to the penalties
SecurityPoints(token) ==
    (IF token.contract_verified THEN 4 * Centi ELSE 0)
    + (IF ~token.honeypot_check THEN 4 * Centi ELSE 0)
    + (IF token.mint_disabled THEN 4 * Centi ELSE 0)
    + (IF token.ownership_renounced THEN 4 * Centi ELSE 0)
    + (IF token.audit_given /\ token.audit_score # 0
       THEN AuditPoints(token.audit_score) ELSE 0)
    + (IF token.tax_percentage <= 2 THEN 10 * Centi
       ELSE IF token.tax_percentage <= 4 THEN 5 * Centi ELSE 0)
    + (IF token.max_tx_percentage >= 2 THEN 10 * Centi
       ELSE IF token.max_tx_percentage >= 1 THEN 5 * Centi ELSE 0)

\* score *= max(0.2, 1 - len(rug_pull_indicators) * 0.2)
RugPullPenalty(score, indicators) ==
    IF indicators > 0 THEN (score * max2(2, 10 - indicators * 2)) \div 10 ELSE score

\* _score_security without the honeypot penalty
score_security_honeypot_scored(token) ==
    min2(100 * Centi, RugPullPenalty(SecurityPoints(token), token.rug_pull_indicators))

\* a scorer that trusts every contract
score_security_trusting(token) == 100 * Centi

\* _score_security
score_security(token) ==
    IF token.honeypot_check
    THEN 0
    ELSE min2(100 * Centi, RugPullPenalty(SecurityPoints(token), token.rug_pull_indicators))

\* the sentiment converted without the shift to 0..5
SentimentUnshifted(sentiment_score) == (sentiment_score * 5) \div 2

\* (token.sentiment_score + 1) / 2 * 5
SentimentContribution(sentiment_score) == ((sentiment_score + 100) * 5) \div 2

\* _score_social
score_social(token) ==
    LET total_community == token.telegram_members + token.twitter_followers
        size ==
            IF total_community >= 1000 THEN 40 * Centi
            ELSE IF total_community >= 500 THEN 30 * Centi
            ELSE IF total_community >= 200 THEN 20 * Centi
            ELSE IF total_community >= 100 THEN 10 * Centi
            ELSE max2(0, total_community)
        engagement ==
            IF token.twitter_engagement_rate >= 500 THEN 4 * Centi
            ELSE IF token.twitter_engagement_rate >= 100 THEN 20 * Centi
            ELSE IF token.twitter_engagement_rate >= 50 THEN 10 * Centi
            ELSE max2(0, token.twitter_engagement_rate * 10)
        growth ==
            IF token.social_growth_rate >= 800 THEN 8 * Centi
            ELSE IF token.social_growth_rate >= 500 THEN 15 * Centi
            ELSE IF token.social_growth_rate >= 100 THEN 10 * Centi
            ELSE max2(0, token.social_growth_rate * 2)
        sentiment_contribution == SentimentContribution(token.sentiment_score)
        influencers ==
            IF token.influencer_mentions >= 5 THEN 5 * Centi
            ELSE IF token.influencer_mentions >= 2 THEN 3 * Centi
            ELSE IF token.influencer_mentions >= 1 THEN 1 * Centi
            ELSE 0
    IN min2(100 * Centi, size + engagement + growth + sentiment_contribution + influencers)

\* _score_volume
score_volume(token) ==
    LET magnitude ==
            IF token.volume_1h >= 10000 THEN 40 * Centi
            ELSE IF token.volume_1h >= 5000 THEN 30 * Centi
            ELSE IF token.volume_1h >= 2000 THEN 20 * Centi
            ELSE IF token.volume_1h >= 1000 THEN 10 * Centi
            ELSE max2(0, token.volume_1h)
        ratio ==
            IF token.buy_sell_ratio >= 150 THEN 30 * Centi
            ELSE IF token.buy_sell_ratio >= 120 THEN 20 * Centi
            ELSE IF token.buy_sell_ratio >= 100 THEN 10 * Centi
            ELSE max2(0, token.buy_sell_ratio * 10)
        activity ==
            IF token.trades_per_minute >= 10 THEN 20 * Centi
            ELSE IF token.trades_per_minute >= 5 THEN 15 * Centi
            ELSE IF token.trades_per_minute >= 2 THEN 10 * Centi
            ELSE max2(0, token.trades_per_minute * 500)
        volatility ==
            IF 50 <= token.price_volatility /\ token.price_volatility <= 150 THEN 10 * Centi
            ELSE IF 30 <= token.price_volatility /\ token.price_volatility <= 200 THEN 5 * Centi
            ELSE 0
    IN min2(100 * Centi, magnitude + ratio + activity + volatility)

\* _score_developer
score_developer(token) ==
    LET team == IF token.team_doxxed THEN 40 * Centi ELSE 0
        commits ==
            IF token.github_commits >= 50 THEN 30 * Centi
            ELSE IF token.github_commits >= 20 THEN 20 * Centi
            ELSE IF token.github_commits >= 10 THEN 10 * Centi
            ELSE max2(0, token.github_commits * Centi)
        updates ==
            IF token.code_updates_24h >= 5 THEN 15 * Centi
            ELSE IF token.code_updates_24h >= 2 THEN 10 * Centi
            ELSE IF token.code_updates_24h >= 1 THEN 5 * Centi
            ELSE 0
        history ==
            IF token.developer_wallet_history >= 3 THEN 15 * Centi
            ELSE IF token.developer_wallet_history >= 1 THEN 10 * Centi
            ELSE IF token.developer_wallet_history = 0 THEN 5 * Centi
            ELSE 0
    IN min2(100 * Centi, team + commits + updates + history)

\* _score_community
score_community(token) ==
    LET total_community == token.discord_members + token.reddit_subscribers
        size ==
            IF total_community >= 5000 THEN 50 * Centi
            ELSE IF total_community >= 2000 THEN 35 * Centi
            ELSE IF total_community >= 1000 THEN 25 * Centi
            ELSE IF total_community >= 500 THEN 15 * Centi
            ELSE max2(0, total_community * 3)
    IN min2(100 * Centi, size + token.community_engagement_score * 50)

\* ScoringWeights, in hundredths
ScoringWeights ==
    [liquidity |-> 30, holders |-> 20, security |-> 25, social |-> 10,
     volume |-> 10, developer |-> 3, community |-> 2]

Categories == DOMAIN ScoringWeights

\* _get_chain_multiplier, in twentieths
get_chain_multiplier(chain) ==
    CASE chain = "solana" -> 22
      [] chain = "ethereum" -> 19
      [] chain = "bnb" -> 21
      [] chain = "base" -> 20
      [] OTHER -> 20

\* a multiplier that prefers the older tokens
get_time_multiplier_reversed(launch_time, current_time) ==
    LET hours_since_launch == current_time - launch_time
    IN IF hours_since_launch <= 1 THEN 18
       ELSE IF hours_since_launch <= 4 THEN 19
       ELSE IF hours_since_launch <= 12 THEN 20
       ELSE IF hours_since_launch <= 24 THEN 22
       ELSE 24

\* _get_time_multiplier, in twentieths; the times are in hours
get_time_multiplier(launch_time, current_time) ==
    LET hours_since_launch == current_time - launch_time
    IN IF hours_since_launch <= 1 THEN 24
       ELSE IF hours_since_launch <= 4 THEN 22
       ELSE IF hours_since_launch <= 12 THEN 20
       ELSE IF hours_since_launch <= 24 THEN 19
       ELSE 18

component_scores(token) ==
    [liquidity |-> score_liquidity(token),
     holders |-> score_holders(token),
     security |-> score_security(token),
     social |-> score_social(token),
     volume |-> score_volume(token),
     developer |-> score_developer(token),
     community |-> score_community(token)]

\* the weighted total with the two multipliers, before the cap
WeightedTotal(token, current_time) ==
    LET c == component_scores(token)
        weights == ScoringWeights
    IN (c.liquidity * weights.liquidity + c.holders * weights.holders
        + c.security * weights.security + c.social * weights.social
        + c.volume * weights.volume + c.developer * weights.developer
        + c.community * weights.community)
       * get_chain_multiplier(token.chain)
       * get_time_multiplier(token.launch_time, current_time)

\* the total returned as it was computed
Uncapped(total_score) == total_score

\* min(100, max(0, total_score))
Capped(total_score) == min2(100 * TotalUnit, max2(0, total_score))

\* a scorer that averages the total with the total of its previous call
calculate_score_smoothed(token, current_time) ==
    [called |-> TRUE,
     current_time |-> current_time,
     total_score |->
        IF calculated.called
        THEN (Capped(WeightedTotal(token, current_time)) + calculated.total_score) \div 2
        ELSE Capped(WeightedTotal(token, current_time)),
     component_scores |-> component_scores(token)]

\* calculate_score: (total_score, component_scores)
calculate_score(token, current_time) ==
    [called |-> TRUE,
     current_time |-> current_time,
     total_score |-> Capped(WeightedTotal(token, current_time)),
     component_scores |-> component_scores(token)]

(***************************************************************************)
(* TokenScorer of scoring/token_scorer.py: whole points.  total_supply is  *)
(* in millions of tokens.                                                  *)
(***************************************************************************)
min_liquidity_usd == 10000

min_market_cap_usd == 8000

min_volume_24h == 3000

min_holders == 10

max_buy_tax == 5

max_sell_tax == 5

min_twitter_followers == 5

min_telegram_members == 5

min_lp_lock_days == 30

\* _score_liquidity (Max 10 points)
token_score_liquidity(data) ==
    IF data.liquidity_usd < min_liquidity_usd THEN 0
    ELSE IF data.liquidity_usd >= 10000 THEN 10 ELSE 0

\* _score_volume (Max 20 points)
token_score_volume(data) ==
    IF data.volume_24h >= 10000 THEN 20
    ELSE IF data.volume_24h >= 3000 THEN 10
    ELSE 0

\* _score_holder_distribution (Max 15 points): the count of the RPC, else the
\* value of 'holders'; comparing a dict raises TypeError, caught: 0
token_score_holder_distribution(data) ==
    IF ~data.rpc_answered /\ data.holders = "dict"
    THEN 0
    ELSE LET total_holders ==
                 IF data.rpc_answered THEN data.rpc_total
                 ELSE IF data.holders = "absent" THEN 0 ELSE data.holders_total
         IN IF total_holders >= 100 /\ total_holders <= 500 THEN 15
            ELSE IF total_holders >= 10 /\ total_holders < 100 THEN 10
            ELSE IF total_holders < 10 THEN 0
            ELSE 10

\* cache_key = f"{chain}_{address}"
contract_cache_key(data) == <<data.chain, data.address>>

\* _score_contract on a miss of the cache, honeypot apart
ContractPoints(data) ==
    min2(30, (IF data.contract_verified THEN 10 ELSE 0)
             + (IF data.honeypot_check = "safe" THEN 10 ELSE 0)
             + (IF data.ownership_renounced THEN 5 ELSE 0)
             + (IF data.lp_locked \/ data.lp_lock_days >= min_lp_lock_days
                THEN 5 ELSE 0))

\* _score_contract (Max 30 points): the cached score if there is one
token_score_contract(data, cache) ==
    IF contract_cache_key(data) \in DOMAIN cache
    THEN cache[contract_cache_key(data)]
    ELSE IF data.honeypot_check = "honeypot"
    THEN 0
    ELSE ContractPoints(data)

\* self.contract_cache after _score_contract: written on a miss, unless the
\* honeypot return came first
contract_cache_after(data, cache) ==
    IF contract_cache_key(data) \in DOMAIN cache \/ data.honeypot_check = "honeypot"
    THEN cache
    ELSE (contract_cache_key(data) :> ContractPoints(data)) @@ cache

\* _score_social_presence on a miss of the cache
SocialPoints(data) ==
    LET links == data.social_links
    IN min2(15, (IF links.twitter /\ links.twitter_followers >= min_twitter_followers
                 THEN 5 ELSE 0)
                + (IF links.telegram /\ links.telegram_members >= min_telegram_members
                   THEN 5 ELSE 0)
                + (IF links.twitter_followers >= 50 /\ links.telegram_members >= 50
                   THEN 5 ELSE 0))

\* _score_social_presence (Max 15 points): the cached score if there is one
token_score_social_presence(data, cache) ==
    IF data.address \in DOMAIN cache THEN cache[data.address] ELSE SocialPoints(data)

\* self.social_cache after _score_social_presence: written on a miss
social_cache_after(data, cache) ==
    IF data.address \in DOMAIN cache
    THEN cache
    ELSE (data.address :> SocialPoints(data)) @@ cache

\* _score_website (Max 5 points)
token_score_website(data) ==
    IF data.social_links.website = "http" THEN 5 ELSE 0

\* _score_token_economics (Max 20 points)
token_score_token_economics(data) ==
    min2(20, (IF data.buy_tax <= max_buy_tax /\ data.sell_tax <= max_sell_tax
              THEN 10 ELSE 0)
             + (IF data.total_supply > 0 /\ 1 <= data.total_supply
                   /\ data.total_supply <= 1000000
                THEN 5 ELSE 0)
             + (IF data.lp_lock_days >= min_lp_lock_days THEN 5 ELSE 0))

\* _score_team_quality (Max 15 points)
token_score_team_quality(data) ==
    min2(15, (IF data.social_links.website # "" THEN 5 ELSE 0)
             + (IF data.social_links.github THEN 5 ELSE 0)
             + (IF data.team_doxxed THEN 5 ELSE 0))

\* social_links is an empty dict
NoSocialLinks(links) ==
    /\ ~links.twitter
    /\ ~links.telegram
    /\ links.website = ""
    /\ ~links.github
    /\ links.twitter_followers = 0
    /\ links.telegram_members = 0

\* _calculate_penalties; scam_patterns is the number of the thirteen patterns
\* found in the name or the symbol
calculate_penalties(data) ==
    data.scam_patterns * 20
    + (IF data.liquidity_usd < min_liquidity_usd THEN 10 ELSE 0)
    + (IF data.market_cap < min_market_cap_usd THEN 5 ELSE 0)
    + (IF data.volume_24h < min_volume_24h THEN 5 ELSE 0)
    + (IF (IF data.holders = "absent" THEN 0 ELSE data.holders_total) < min_holders
       THEN 5 ELSE 0)
    + (IF NoSocialLinks(data.social_links) THEN 20 ELSE 0)
    + (IF data.buy_tax > max_buy_tax \/ data.sell_tax > max_sell_tax THEN 20 ELSE 0)

\* _calculate_bonuses
calculate_bonuses(data) ==
    (IF data.contract_verified /\ data.audited THEN 10 ELSE 0)
    + (IF data.volume_24h > data.liquidity_usd * 2 THEN 5 ELSE 0)
    + (IF data.dex_reputable THEN 5 ELSE 0)
    + (IF data.holders = "dict" /\ data.holders_total > 100 THEN 5 ELSE 0)

\* score_token raises: an int 'holders' has no .get (line 483), a dict 'holders'
\* is compared with an int (line 447), and under DRY_RUN=true line 143 uses the
\* module json, which is not imported
score_token_raises(data) ==
    \/ data.holders = "int"
    \/ data.holders = "dict"
    \/ data.dry_run

\* score_token: (total_score, analysis), on a scorer with the two caches
score_token(data, contracts, socials) ==
    LET total_score ==
            token_score_liquidity(data) + token_score_volume(data)
            + token_score_holder_distribution(data)
            + token_score_contract(data, contracts)
            + token_score_social_presence(data, socials) + token_score_website(data)
            + token_score_token_economics(data) + token_score_team_quality(data)
        penalised == max2(0, total_score - calculate_penalties(data))
    IN IF score_token_raises(data)
       THEN [called |-> TRUE, raised |-> TRUE, total_score |-> 0]
       ELSE [called |-> TRUE, raised |-> FALSE,
             total_score |-> min2(100, penalised + calculate_bonuses(data))]

(***************************************************************************)
(* ConfidenceCalculator of alert_scoring_system.py.  The score is in whole *)
(* points, the component scores in hundredths of a point, the confidences  *)
(* and ml_probability in thousandths.                                      *)
(***************************************************************************)
\* a component counted as weak from 40 downwards
IsWeakInclusive(comp_score) == comp_score <= 40 * Centi

\* if comp_score < 40
IsWeak(comp_score) == comp_score < 40 * Centi

\* if v >= 70
IsStrong(comp_score) == comp_score >= 70 * Centi

\* component_scores.get('security', 0)
SecurityOrZero(components) ==
    IF "security" \in DOMAIN components THEN components.security ELSE 0

\* _estimate_timeframe
estimate_timeframe(confidence_value) ==
    IF confidence_value >= 700 THEN "4-8 hours"
    ELSE IF confidence_value >= 500 THEN "8-16 hours"
    ELSE IF confidence_value >= 300 THEN "16-24 hours"
    ELSE "24+ hours"

\* calculate_confidence: the dict of factors
calculate_confidence(score, components, ml_probability) ==
    LET base_confidence ==
            IF score >= 80 THEN "HIGH"
            ELSE IF score >= 65 THEN "MEDIUM"
            ELSE IF score >= 50 THEN "LOW"
            ELSE "VERY_LOW"
        confidence_value ==
            IF score >= 80 THEN 850
            ELSE IF score >= 65 THEN 650
            ELSE IF score >= 50 THEN 450
            ELSE 250
        ml_adjusted == (confidence_value * 7 + ml_probability * 3) \div 10
        weak_points == {component \in DOMAIN components : IsWeak(components[component])}
    IN [called |-> TRUE,
        score_confidence |-> confidence_value,
        ml_confidence |-> ml_probability,
        combined_confidence |-> ml_adjusted,
        confidence_level |-> base_confidence,
        weak_points |-> weak_points,
        strong_points |-> {k \in DOMAIN components : IsStrong(components[k])},
        risk_level |->
            IF "security" \in weak_points \/ SecurityOrZero(components) < 50 * Centi
            THEN "HIGH"
            ELSE IF Cardinality(weak_points) >= 3 THEN "MEDIUM"
            ELSE "LOW",
        predicted_2x_probability |-> ml_adjusted,
        predicted_timeframe |-> estimate_timeframe(ml_adjusted)]

(***************************************************************************)
(* The inputs of the scorers.                                              *)
(***************************************************************************)
LiquidityInputs ==
    [initial_liquidity : {0, 500, 5500},
     liquidity_locked : BOOLEAN,
     liquidity_lock_duration : {0, 365},
     liquidity_to_mcap_ratio : {0, 30, 500},
     liquidity_providers_count : {0, 10}]

HolderInputs ==
    [top_10_holders_percentage : {20, 75, 100},
     holder_growth_rate : {0, 4, 100},
     unique_buyers_first_hour : {0, 9},
     whale_concentration : {40, 60, 80}]

\* audit_score -500 stands for a value outside the documented range 0-100
SecurityInputs ==
    [contract_verified : BOOLEAN,
     honeypot_check : BOOLEAN,
     mint_disabled : BOOLEAN,
     ownership_renounced : BOOLEAN,
     audit_given : BOOLEAN,
     audit_score : {-500, 0, 50, 100},
     tax_percentage : {2, 4, 10},
     max_tx_percentage : {0, 1, 2},
     rug_pull_indicators : {0, 1, 5}]

\* sentiment_score -300 stands for a value outside the documented range -1 to 1
SocialInputs ==
    [telegram_members : {0, 20, 500},
     twitter_followers : {0, 500},
     twitter_engagement_rate : {0, 30, 100, 500},
     social_growth_rate : {0, 50, 500, 800},
     influencer_mentions : {0, 5},
     sentiment_score : {-300, -100, 0, 100}]

VolumeInputs ==
    [volume_1h : {0, 500, 10000},
     buy_sell_ratio : {0, 50, 150},
     trades_per_minute : {0, 1, 10},
     price_volatility : {0, 100, 180}]

DeveloperInputs ==
    [github_commits : {0, 5, 50},
     code_updates_24h : {0, 5},
     developer_wallet_history : {0, 3},
     team_doxxed : BOOLEAN]

\* community_engagement_score -300 stands for a value outside the range 0-100
CommunityInputs ==
    [discord_members : {0, 100, 5000},
     reddit_subscribers : {0},
     community_engagement_score : {-300, 0, 50, 100}]

\* the least and the greatest input of each category
Least(category) ==
    CASE category = "liquidity" ->
            [initial_liquidity |-> 0, liquidity_locked |-> FALSE,
             liquidity_lock_duration |-> 0, liquidity_to_mcap_ratio |-> 0,
             liquidity_providers_count |-> 0]
      [] category = "holders" ->
            [top_10_holders_percentage |-> 100, holder_growth_rate |-> 0,
             unique_buyers_first_hour |-> 0, whale_concentration |-> 80]
      [] category = "security" ->
            [contract_verified |-> FALSE, honeypot_check |-> FALSE,
             mint_disabled |-> FALSE, ownership_renounced |-> FALSE,
             audit_given |-> TRUE, audit_score |-> -500, tax_percentage |-> 10,
             max_tx_percentage |-> 0, rug_pull_indicators |-> 0]
      [] category = "social" ->
            [telegram_members |-> 0, twitter_followers |-> 0,
             twitter_engagement_rate |-> 0, social_growth_rate |-> 0,
             influencer_mentions |-> 0, sentiment_score |-> -300]
      [] category = "volume" ->
            [volume_1h |-> 0, buy_sell_ratio |-> 0, trades_per_minute |-> 0,
             price_volatility |-> 0]
      [] category = "developer" ->
            [github_commits |-> 0, code_updates_24h |-> 0,
             developer_wallet_history |-> 0, team_doxxed |-> FALSE]
      [] category = "community" ->
            [discord_members |-> 0, reddit_subscribers |-> 0,
             community_engagement_score |-> -300]

Greatest(category) ==
    CASE category = "liquidity" ->
            [initial_liquidity |-> 5500, liquidity_locked |-> TRUE,
             liquidity_lock_duration |-> 365, liquidity_to_mcap_ratio |-> 500,
             liquidity_providers_count |-> 10]
      [] category = "holders" ->
            [top_10_holders_percentage |-> 20, holder_growth_rate |-> 100,
             unique_buyers_first_hour |-> 9, whale_concentration |-> 40]
      [] category = "security" ->
            [contract_verified |-> TRUE, honeypot_check |-> FALSE,
             mint_disabled |-> TRUE, ownership_renounced |-> TRUE,
             audit_given |-> TRUE, audit_score |-> 100, tax_percentage |-> 2,
             max_tx_percentage |-> 2, rug_pull_indicators |-> 0]
      [] category = "social" ->
            [telegram_members |-> 500, twitter_followers |-> 500,
             twitter_engagement_rate |-> 100, social_growth_rate |-> 500,
             influencer_mentions |-> 5, sentiment_score |-> 100]
      [] category = "volume" ->
            [volume_1h |-> 10000, buy_sell_ratio |-> 150, trades_per_minute |-> 10,
             price_volatility |-> 100]
      [] category = "developer" ->
            [github_commits |-> 50, code_updates_24h |-> 5,
             developer_wallet_history |-> 3, team_doxxed |-> TRUE]
      [] category = "community" ->
            [discord_members |-> 5000, reddit_subscribers |-> 0,
             community_engagement_score |-> 100]

Extremes(category) == {Least(category), Greatest(category)}

LaunchTime == 0

CurrentTimes == {1, 4, 12, 24, 30}

\* a TokenMetrics from the inputs of its seven groups of fields
TokenMetrics(chain, l, h, s, so, v, d, c) ==
    [chain |-> chain, launch_time |-> LaunchTime] @@ l @@ h @@ s @@ so @@ v @@ d @@ c

\* the token of example_3_high_risk_token, on any chain.  Ratios in
\* thousandths (liquidity_to_mcap_ratio 0.02, price_volatility 0.45) or
\* hundredths; max_tx_percentage 0.5 is below both of its tiers, as 0 is.
HighRiskToken(chain) ==
    [chain |-> chain, launch_time |-> LaunchTime,
     initial_liquidity |-> 5000, liquidity_locked |-> FALSE,
     liquidity_lock_duration |-> 0, liquidity_to_mcap_ratio |-> 20,
     liquidity_providers_count |-> 5,
     top_10_holders_percentage |-> 75, holder_growth_rate |-> 8,
     unique_buyers_first_hour |-> 30, whale_concentration |-> 85,
     contract_verified |-> FALSE, honeypot_check |-> TRUE, mint_disabled |-> FALSE,
     ownership_renounced |-> FALSE, audit_given |-> FALSE, audit_score |-> 0,
     tax_percentage |-> 25, max_tx_percentage |-> 0, rug_pull_indicators |-> 5,
     telegram_members |-> 200, twitter_followers |-> 100,
     twitter_engagement_rate |-> 50, social_growth_rate |-> 200,
     influencer_mentions |-> 0, sentiment_score |-> -30,
     volume_1h |-> 8000, buy_sell_ratio |-> 60, trades_per_minute |-> 1,
     price_volatility |-> 450,
     github_commits |-> 0, code_updates_24h |-> 0, developer_wallet_history |-> 0,
     team_doxxed |-> FALSE,
     discord_members |-> 0, reddit_subscribers |-> 0,
     community_engagement_score |-> 5]

HighRiskTokens == {HighRiskToken(chain) : chain \in Chain}

\* the example token, every combination of the extremes on every chain, and
\* every input of one category with the other categories at their greatest
MetricsInputs ==
    HighRiskTokens \cup
    {TokenMetrics(chain, l, h, s, so, v, d, c) :
        chain \in Chain, l \in Extremes("liquidity"), h \in Extremes("holders"),
        s \in Extremes("security"), so \in Extremes("social"),
        v \in Extremes("volume"), d \in Extremes("developer"),
        c \in Extremes("community")}
    \cup {TokenMetrics("solana", l, Greatest("holders"), Greatest("security"),
                       Greatest("social"), Greatest("volume"), Greatest("developer"),
                       Greatest("community")) : l \in LiquidityInputs}
    \cup {TokenMetrics("solana", Greatest("liquidity"), h, Greatest("security"),
                       Greatest("social"), Greatest("volume"), Greatest("developer"),
                       Greatest("community")) : h \in HolderInputs}
    \cup {TokenMetrics("solana", Greatest("liquidity"), Greatest("holders"), s,
                       Greatest("social"), Greatest("volume"), Greatest("developer"),
                       Greatest("community")) : s \in SecurityInputs}
    \cup {TokenMetrics("solana", Greatest("liquidity"), Greatest("holders"),
                       Greatest("security"), so, Greatest("volume"),
                       Greatest("developer"), Greatest("community")) : so \in SocialInputs}
    \cup {TokenMetrics("solana", Greatest("liquidity"), Greatest("holders"),
                       Greatest("security"), Greatest("social"), v,
                       Greatest("developer"), Greatest("community")) : v \in VolumeInputs}
    \cup {TokenMetrics("solana", Greatest("liquidity"), Greatest("holders"),
                       Greatest("security"), Greatest("social"), Greatest("volume"),
                       d, Greatest("community")) : d \in DeveloperInputs}
    \cup {TokenMetrics("solana", Greatest("liquidity"), Greatest("holders"),
                       Greatest("security"), Greatest("social"), Greatest("volume"),
                       Greatest("developer"), c) : c \in CommunityInputs}

NoLinks ==
    [twitter |-> FALSE, twitter_followers |-> 0, telegram |-> FALSE,
     telegram_members |-> 0, website |-> "", github |-> FALSE]

SocialLinks ==
    {NoLinks,
     [twitter |-> TRUE, twitter_followers |-> 10, telegram |-> FALSE,
      telegram_members |-> 0, website |-> "other", github |-> FALSE],
     [twitter |-> TRUE, twitter_followers |-> 100, telegram |-> TRUE,
      telegram_members |-> 100, website |-> "http", github |-> TRUE]}

\* the contract and the economics of a token: nothing in its favour, a
\* honeypot, everything in its favour
ContractInputs ==
    {[contract_verified |-> FALSE, honeypot_check |-> "absent",
      ownership_renounced |-> FALSE, lp_locked |-> FALSE, lp_lock_days |-> 0,
      buy_tax |-> 10, sell_tax |-> 10, total_supply |-> 0, team_doxxed |-> FALSE],
     [contract_verified |-> TRUE, honeypot_check |-> "honeypot",
      ownership_renounced |-> TRUE, lp_locked |-> TRUE, lp_lock_days |-> 30,
      buy_tax |-> 0, sell_tax |-> 0, total_supply |-> 1000, team_doxxed |-> TRUE],
     [contract_verified |-> TRUE, honeypot_check |-> "safe",
      ownership_renounced |-> TRUE, lp_locked |-> TRUE, lp_lock_days |-> 30,
      buy_tax |-> 0, sell_tax |-> 0, total_supply |-> 1000, team_doxxed |-> TRUE]}

MarketInputs ==
    [liquidity_usd : {0, 50000},
     volume_24h : {0, 30000, 200000},
     market_cap : {0, 10000},
     holders : {"absent", "int", "dict"},
     holders_total : {150},
     rpc_answered : BOOLEAN,
     rpc_total : {15},
     scam_patterns : {0, 1, 13},
     audited : BOOLEAN,
     dex_reputable : BOOLEAN,
     dry_run : BOOLEAN]

TokenDataInputs ==
    {[chain |-> "solana", address |-> "a1", social_links |-> links] @@ m @@ c :
        m \in MarketInputs, c \in ContractInputs, links \in SocialLinks}

\* tokens that score_token scores without raising: one address seen on two
\* chains, its contract and its links as the enrichment found them at the time
RescoreInputs ==
    {[chain |-> chain, address |-> "a1", social_links |-> links,
      liquidity_usd |-> 50000, volume_24h |-> 30000, market_cap |-> 10000,
      holders |-> "absent", holders_total |-> 0, rpc_answered |-> FALSE,
      rpc_total |-> 0, scam_patterns |-> 0, audited |-> FALSE,
      dex_reputable |-> FALSE, dry_run |-> FALSE] @@ c :
        chain \in {"solana", "bnb"}, c \in ContractInputs,
        links \in {NoLinks, [twitter |-> TRUE, twitter_followers |-> 100,
                             telegram |-> TRUE, telegram_members |-> 100,
                             website |-> "http", github |-> TRUE]}}

\* the tokens and the times of repeated calls of calculate_score
RecalculateInputs ==
    {TokenMetrics(chain, Greatest("liquidity"), Greatest("holders"), s,
                  Greatest("social"), Greatest("volume"), Greatest("developer"),
                  Greatest("community")) :
        chain \in {"solana", "ethereum"},
        s \in {Greatest("security"), Least("security")}}

RecalculateTimes == {1, 30}

NoCache == <<>>

\* component maps: a security score around 40 and 50 or no security key,
\* the other six scores around 40 and at 70
ComponentMaps ==
    LET others == Categories \ {"security"}
    IN UNION {{rest @@ [security |-> value] : value \in {0, 3999, 4000, 4999, 5000, 7000}}
                 \cup {rest} :
              rest \in [others -> {3999, 4000, 7000}]}

ConfidenceScores == {49, 50, 65, 80}

MlProbabilities == {0, 500}

ConfidenceArguments ==
    [score : ConfidenceScores, component_scores : ComponentMaps,
     ml_probability : MlProbabilities]

NoArguments == [score |-> -1]

NotAssessed == [called |-> FALSE]

NoMetrics == [chain |-> "none"]

NoTokenData == [holders |-> "none"]

NotCalculated ==
    [called |-> FALSE, current_time |-> 0, total_score |-> 0,
     component_scores |-> [category \in Categories |-> 0]]

NotScored == [called |-> FALSE, raised |-> FALSE, total_score |-> 0]

\* TokenScorer() of both modules: nothing scored, the caches empty
ScorerFresh ==
    /\ calculated = NotCalculated
    /\ scored = NotScored
    /\ contract_cache = NoCache
    /\ social_cache = NoCache
    /\ calculate_calls = <<>>
    /\ score_calls = <<>>
    /\ confidence = NotAssessed

ScorerIdle ==
    /\ metrics = NoMetrics
    /\ token_data = NoTokenData
    /\ confidence_args = NoArguments
    /\ ScorerFresh

\* calculate_score(token, current_time) on the scorer object: it writes no
\* field of the scorer
CalculateScoreCall(token, current_time) ==
    /\ calculated' = calculate_score(token, current_time)
    /\ calculate_calls' = Append(calculate_calls, [token |-> token, result |-> calculated'])
    /\ UNCHANGED <<token_data, scored, contract_cache, social_cache, score_calls>>
    /\ UNCHANGED <<confidence_args, confidence>>
    /\ UNCHANGED <<adm_vars, um_vars, lc_vars>>

\* score_token(data) on the scorer object: _score_contract and
\* _score_social_presence write their caches before anything can raise
ScoreTokenCall(data) ==
    /\ scored' = score_token(data, contract_cache, social_cache)
    /\ contract_cache' = contract_cache_after(data, contract_cache)
    /\ social_cache' = social_cache_after(data, social_cache)
    /\ score_calls' = Append(score_calls, [data |-> data, result |-> scored'])
    /\ UNCHANGED <<metrics, calculated, calculate_calls>>
    /\ UNCHANGED <<confidence_args, confidence>>
    /\ UNCHANGED <<adm_vars, um_vars, lc_vars>>

\* scorer.calculate_score(metrics, now)
CalculateScore ==
    /\ metrics # NoMetrics
    /\ ~calculated.called
    /\ \E current_time \in CurrentTimes : CalculateScoreCall(metrics, current_time)
    /\ UNCHANGED metrics

\* await self.scorer.score_token(enriched_data)
ScoreToken ==
    /\ token_data # NoTokenData
    /\ ~scored.called
    /\ ScoreTokenCall(token_data)
    /\ UNCHANGED token_data

\* self.confidence_calc.calculate_confidence(score, components, ml_probability)
CalculateConfidence ==
    /\ confidence_args # NoArguments
    /\ ~confidence.called
    /\ confidence' = calculate_confidence(confidence_args.score,
                                          confidence_args.component_scores,
                                          confidence_args.ml_probability)
    /\ UNCHANGED <<metrics, calculated, token_data, scored, contract_cache,
                   social_cache, calculate_calls, score_calls, confidence_args>>
    /\ UNCHANGED <<adm_vars, um_vars, lc_vars>>

\* process_token of the next token: the same scorer object scores it
Recalculate ==
    /\ Len(calculate_calls) < MaxCalls
    /\ \E token \in RecalculateInputs, current_time \in RecalculateTimes :
          /\ metrics' = token
          /\ CalculateScoreCall(token, current_time)

\* process_token_discovery of the next discovery: the same scorer object scores it
Rescore ==
    /\ Len(score_calls) < MaxCalls
    /\ \E data \in RescoreInputs :
          /\ token_data' = data
          /\ ScoreTokenCall(data)

-----------------------------------------------------------------------------
(* Specifications *)

\* the monitor as constructed from the default environment, idle
MonitorIdle == MonitorInit(500, DefaultDistribution) /\ DispatcherInit(FALSE)

\* the manager as constructed by default, idle
ManagerIdle ==
    /\ ManagerInit(500)
    /\ now = [date |-> 0, hour |-> 0, minute |-> 0]

\* every daily target of the range, the manager only being constructed
InitDistribution ==
    /\ \E limit \in MinDailyTarget..MaxDailyTarget : ManagerInit(limit)
    /\ now = [date |-> 0, hour |-> 0, minute |-> 0]
    /\ MonitorIdle
    /\ ScorerIdle

NextDistribution == Construct

SpecDistribution == InitDistribution /\ [][NextDistribution]_vars

\* managers with non-negative budgets, calls at the modelled clock readings
InitQuota ==
    /\ \E limit \in QuotaLimits : ManagerInit(limit)
    /\ now \in [date : {0}, hour : ModelHours, minute : ModelMinutes]
    /\ MonitorIdle
    /\ ScorerIdle

Call ==
    /\ alerts_sent_today < MaxHistory
    /\ \E score \in Scores, chain \in ModelChains : should_send_alert(score, chain)

Tick == ClockAdvance(ModelHours, ModelMinutes)

NextQuota == Call \/ Tick

SpecQuota == InitQuota /\ [][NextQuota]_vars

\* a small daily target, a burst of high scores in a peak hour
InitBurst ==
    /\ \E limit \in BurstLimits : ManagerInit(limit)
    /\ now \in [date : {0}, hour : BurstHours, minute : BurstMinutes]
    /\ MonitorIdle
    /\ ScorerIdle

BurstCall ==
    /\ alerts_sent_today < MaxBurst
    /\ \E score \in BurstScores, chain \in ModelChains : should_send_alert(score, chain)

BurstTick == ClockAdvance(BurstHours, BurstMinutes)

NextBurst == BurstCall \/ BurstTick

SpecBurst == InitBurst /\ [][NextBurst]_vars

\* the monitor: the chain monitors' discoveries against the one dispatcher
InitMonitor ==
    /\ ManagerIdle
    /\ ScorerIdle
    /\ \E target \in MonitorTargets, distribution \in MonitorDistributions :
          MonitorInit(target, distribution)
    /\ DispatcherInit(FALSE)

NextMonitor ==
    \/ \E p \in MonitorChains, address \in Addresses : Discover(p, address)
    \/ \E p \in MonitorChains, score \in MonitorScores : ScoreAndEnqueue(p, score)
    \/ LoopTop
    \/ GetAlert
    \/ GetTimeout
    \/ SendReturns
    \/ SleepDone
    \/ DateRollover

SpecMonitor == InitMonitor /\ [][NextMonitor]_vars

\* the monitor with Telegram alerts enabled: the dispatcher's queue and the transport
DeliveryChains == {"solana"}

DeliveryScores == {80}

DeliveryTargets == {1, 2}

InitDelivery ==
    /\ ManagerIdle
    /\ ScorerIdle
    /\ \E target \in DeliveryTargets :
          MonitorInit(target, [c \in Chain |-> IF c = "solana" THEN 100 ELSE 0])
    /\ DispatcherInit(TRUE)

NextDelivery ==
    \/ \E p \in DeliveryChains, address \in Addresses : Discover(p, address)
    \/ \E p \in DeliveryChains, score \in DeliveryScores : ScoreAndEnqueue(p, score)
    \/ LoopTop
    \/ GetAlert
    \/ GetTimeout
    \/ SendReturns
    \/ SleepDone
    \/ DateRollover
    \/ \E outcome \in DeliveryOutcomes : ProcessQueue(outcome)

SpecDelivery == InitDelivery /\ [][NextDelivery]_vars

\* the monitor with candidates of both tiers and of different scores in one tier
PriorityScores == {60, 75, 80}

InitPriority ==
    /\ ManagerIdle
    /\ ScorerIdle
    /\ \E target \in DeliveryTargets :
          MonitorInit(target, [c \in Chain |-> IF c = "solana" THEN 100 ELSE 0])
    /\ DispatcherInit(FALSE)

NextPriority ==
    \/ \E p \in DeliveryChains, address \in Addresses : Discover(p, address)
    \/ \E p \in DeliveryChains, score \in PriorityScores : ScoreAndEnqueue(p, score)
    \/ LoopTop
    \/ GetAlert
    \/ GetTimeout
    \/ SendReturns
    \/ SleepDone
    \/ DateRollover

SpecPriority == InitPriority /\ [][NextPriority]_vars

\* the monitor started with the percentages of the environment, whatever their sum
ConfigDistributions ==
    {DefaultDistribution,
     [c \in Chain |-> IF c \in {"solana", "bnb"} THEN 100 ELSE 0],
     [c \in Chain |-> IF c = "solana" THEN 50 ELSE 0]}

InitConfig ==
    /\ ManagerIdle
    /\ ScorerIdle
    /\ \E distribution \in ConfigDistributions : MonitorInit(2, distribution)
    /\ DispatcherInit(FALSE)

NextConfig ==
    \/ \E p \in MonitorChains, address \in Addresses : Discover(p, address)
    \/ \E p \in MonitorChains, score \in DeliveryScores : ScoreAndEnqueue(p, score)
    \/ LoopTop
    \/ GetAlert
    \/ GetTimeout
    \/ SendReturns
    \/ SleepDone
    \/ DateRollover

SpecConfig == InitConfig /\ [][NextConfig]_vars

\* the monitor constructed with a daily target and percentages that sum to 100
ScenarioSplit == [c \in Chain |->
    CASE c = "solana" -> 40
      [] c = "ethereum" -> 25
      [] c = "bnb" -> 20
      [] c = "base" -> 15]

BudgetTargets == 0..MaxBudgetTarget \cup {500}

BudgetDistributions ==
    {ScenarioSplit, DefaultDistribution,
     [c \in Chain |-> 25],
     [c \in Chain |-> IF c = "base" THEN 1 ELSE 33],
     [c \in Chain |-> IF c = "solana" THEN 97 ELSE 1],
     [c \in Chain |-> IF c = "solana" THEN 100 ELSE 0]}

InitBudget ==
    /\ ManagerIdle
    /\ ScorerIdle
    /\ \E target \in BudgetTargets, distribution \in BudgetDistributions :
          MonitorInit(target, distribution)
    /\ DispatcherInit(FALSE)

NextBudget == DateRollover

SpecBudget == InitBudget /\ [][NextBudget]_vars

\* the monitor over an unbounded run of days, its tasks scheduled fairly.
\* The code reads the calendar only in now.date() > last_alert_reset.date();
\* once the reset of the last modelled day has run, the days are renamed so
\* that the next midnight can follow.
DayRenamed ==
    /\ um_date = MaxDay
    /\ last_alert_reset = um_date
    /\ um_date' = 0
    /\ last_alert_reset' = 0
    /\ UNCHANGED <<um_config, stats_alerts_sent_today, chain_alerts_sent, sent_alerts,
                   sent_alerts_file, alert_queue, holding_queue, producer, consumer,
                   enqueue_clock, dispatched, recorded, um_event>>
    /\ UNCHANGED <<adm_vars, lc_vars, sc_vars>>

InitFair ==
    /\ ManagerIdle
    /\ ScorerIdle
    /\ MonitorInit(1, [c \in Chain |-> IF c = "solana" THEN 100 ELSE 0])
    /\ DispatcherInit(FALSE)

\* the steps of the task dispatch_alerts
Consumer == LoopTop \/ GetAlert \/ GetTimeout \/ SendReturns \/ SleepDone

Midnight == DateRollover \/ DayRenamed

NextFair ==
    \/ \E p \in MonitorChains, address \in Addresses : Discover(p, address)
    \/ \E p \in MonitorChains, score \in DeliveryScores : ScoreAndEnqueue(p, score)
    \/ LoopTop
    \/ GetAlert
    \/ GetTimeout
    \/ SendReturns
    \/ SleepDone
    \/ DateRollover
    \/ DayRenamed

\* the event loop resumes the dispatcher whenever its await has completed
\* (an item, the 5 s timeout, the 0.5 s sleep), and midnights keep coming
SpecFair ==
    /\ InitFair
    /\ [][NextFair]_vars
    /\ WF_vars(Consumer)
    /\ WF_vars(Midnight)

\* the scorers, each called once on an input of the sets above
InitScore ==
    /\ ManagerIdle
    /\ MonitorIdle
    /\ ScorerFresh
    /\ confidence_args = NoArguments
    /\ \/ metrics \in MetricsInputs /\ token_data = NoTokenData
       \/ metrics = NoMetrics /\ token_data \in TokenDataInputs

NextScore == CalculateScore \/ ScoreToken

SpecScore == InitScore /\ [][NextScore]_vars

\* calculate_confidence called once on a score, a component map and a probability
InitConfidence ==
    /\ ManagerIdle
    /\ MonitorIdle
    /\ metrics = NoMetrics
    /\ token_data = NoTokenData
    /\ ScorerFresh
    /\ confidence_args \in ConfidenceArguments

NextConfidence == CalculateConfidence

SpecConfidence == InitConfidence /\ [][NextConfidence]_vars

\* one TokenScorer of alert_scoring_system.py scoring token after token
InitRecalculate ==
    /\ ManagerIdle
    /\ MonitorIdle
    /\ ScorerIdle

NextRecalculate == Recalculate

SpecRecalculate == InitRecalculate /\ [][NextRecalculate]_vars

\* one TokenScorer of scoring/token_scorer.py scoring discovery after discovery
InitRescore ==
    /\ ManagerIdle
    /\ MonitorIdle
    /\ ScorerIdle

NextRescore == Rescore

SpecRescore == InitRescore /\ [][NextRescore]_vars

\* the monitor killed and started again
InitCrash ==
    /\ ManagerIdle
    /\ ScorerIdle
    /\ MonitorInit(2, [c \in Chain |-> IF c = "solana" THEN 100 ELSE 0])
    /\ DispatcherInit(FALSE)

NextCrash ==
    \/ \E p \in DeliveryChains, address \in Addresses : Discover(p, address)
    \/ \E p \in DeliveryChains, score \in DeliveryScores : ScoreAndEnqueue(p, score)
    \/ LoopTop
    \/ GetAlert
    \/ GetTimeout
    \/ SendReturns
    \/ SleepDone
    \/ DateRollover
    \/ \E torn \in BOOLEAN : Crash(torn)
    \/ Restart

SpecCrash == InitCrash /\ [][NextCrash]_vars

\* the monitor with Telegram alerts enabled, stopped by SIGTERM
NextShutdown ==
    \/ \E p \in DeliveryChains, address \in Addresses : Discover(p, address)
    \/ \E p \in DeliveryChains, score \in DeliveryScores : ScoreAndEnqueue(p, score)
    \/ LoopTop
    \/ GetAlert
    \/ GetTimeout
    \/ SendReturns
    \/ SleepDone
    \/ \E outcome \in DeliveryOutcomes : ProcessQueue(outcome)
    \/ Stop
    \/ LoopExit
    \/ Exit

SpecShutdown == InitDelivery /\ [][NextShutdown]_vars

-----------------------------------------------------------------------------
(* Properties of Part I *)

\* ceil(num / den) for num >= 0
Ceil(num, den) == (num + den - 1) \div den

\* the reference threshold of an open hour, from the budget, the count and the minute
RefBase(budget, sent, minute) ==
    LET remaining == budget - sent
        left == 60 - minute
        minutesLeft == IF left < 1 THEN 1 ELSE left
    IN IF remaining > minutesLeft THEN 50
       ELSE IF 2 * remaining > minutesLeft THEN 60
       ELSE 70

RefThreshold(budget, sent, minute, chainSent, chain) ==
    RefBase(budget, sent, minute)
        + (IF chainSent >= (budget * chain_quotas[chain]) \div 100 THEN 20 ELSE 0)

\* the last call found the hour open / closed
HourOpen == result.called /\ result.alerts_this_hour < result.hourly_quota
HourClosed == result.called /\ result.alerts_this_hour >= result.hourly_quota

\* C2: within one calendar day the number of admitted alerts never exceeds the
\* daily target (stated for every date; refuted for a target below 465).
C2_DailyTotalWithinTarget ==
    \A d \in Dates : AlertsOnDate(alert_history, d) <= daily_limit

\* C3: the 24 hourly budgets sum exactly to the daily target, the remainder
\* going to hour 12 and every other hour keeping its table value.
C3_DistributionSumsToTarget ==
    /\ SumHours(hourly_distribution, 24) = daily_limit
    /\ \A h \in Hours \ {12} : hourly_distribution[h] = HourAlerts(h)

C3_Witness ==
    /\ daily_limit < 465
    /\ hourly_distribution[12] < 0
    /\ SumHours(hourly_distribution, 24) = daily_limit

C5_ClosedHourRejects ==
    HourClosed => (~result.should_send /\ result.threshold = 100)

C5_Witness ==
    /\ HourClosed /\ result.hourly_quota > 0
    /\ result.score = 100 /\ ~result.should_send /\ result.threshold = 100

\* C6 as stated: with the hour's quota and the chain's sub-quota both fully
\* consumed, a candidate of score 90 is still admitted.
C6_Original ==
    ( /\ result.called /\ result.score = 90
      /\ result.hourly_quota > 0
      /\ result.alerts_this_hour = result.hourly_quota
      /\ result.chain_alerts >= ChainQuota(result.hourly_quota, result.chain) )
    => result.should_send

\* C6 as amended: with the chain's sub-quota consumed and the hour's quota not
\* yet consumed, score 90 is admitted at a threshold of base + 20 <= 90; with
\* the hour's quota consumed it is rejected at the sentinel 100.
C6_Amended ==
    /\ ( /\ HourOpen /\ result.score = 90
         /\ result.chain_alerts >= ChainQuota(result.hourly_quota, result.chain) )
       => /\ result.should_send
          /\ result.threshold \in {70, 80, 90}
    /\ (HourClosed /\ result.score = 90) => ~result.should_send

C6_Witness ==
    /\ HourOpen /\ result.score = 90
    /\ result.chain_alerts > 0
    /\ result.chain_alerts >= ChainQuota(result.hourly_quota, result.chain)
    /\ result.should_send /\ result.threshold = 90

\* C8: in an open hour the threshold returned is the reference threshold
\* (base 50 / 60 / 70 by remaining per minute left, plus 20 exactly when the
\* chain's count has reached int(budget x share)), and the chain check never
\* rejects outright: the candidate is admitted iff its score meets it.
C8_ThresholdIsReference ==
    HourOpen =>
        LET ref == RefThreshold(result.hourly_quota, result.alerts_this_hour,
                                result.minute, result.chain_alerts, result.chain)
        IN /\ result.threshold = ref
           /\ result.should_send <=> (result.score >= ref)

C8_Witness ==
    /\ HourOpen
    /\ result.chain_alerts >= ChainQuota(result.hourly_quota, result.chain)
    /\ result.threshold = 80
    /\ result.score = 90 /\ result.should_send

\* C9 as stated: the call accepts iff the score is >= the threshold it returns.
C9_Original ==
    result.called => (result.should_send <=> (result.score >= result.threshold))

\* C9 as amended: in an open hour the call accepts iff score >= threshold, in a
\* closed hour it rejects whatever the score; an accept adds one to the count
\* of the current (date, hour, chain) and to the total and changes no other
\* count; a reject changes nothing of the scheduler.
C9_Amended ==
    [][ (result' # result) =>
        LET r == result'
            open == r.alerts_this_hour < r.hourly_quota
        IN /\ r.date = now.date /\ r.hour = now.hour
           /\ r.should_send <=> (open /\ r.score >= r.threshold)
           /\ alert_history' =
                 IF r.should_send
                 THEN alert_history
                        (+) SetToBag({[date |-> r.date, hour |-> r.hour, chain |-> r.chain]})
                 ELSE alert_history
           /\ alerts_sent_today' = alerts_sent_today + (IF r.should_send THEN 1 ELSE 0)
           /\ UNCHANGED <<daily_limit, hourly_distribution, now>>
      ]_vars

C9_Witness ==
    /\ result.called /\ result.should_send
    /\ result.score = result.threshold
    /\ ChainAlerts(alert_history, result.date, result.hour, result.chain)
          = result.chain_alerts + 1
    /\ alerts_sent_today > result.alerts_this_hour + 1

\* C10: an admission takes a chain's count of the hour above
\* ceil(budget x share) only when the chain's sub-quota was already used up
\* and the score met base + 20; an admission at the unpenalised threshold
\* leaves the chain's count within ceil(budget x share).
C10_OverQuotaOnlyPenalised ==
    (result.called /\ result.should_send) =>
        LET base == RefBase(result.hourly_quota, result.alerts_this_hour, result.minute)
            top == Ceil(result.hourly_quota * chain_quotas[result.chain], 100)
            after == ChainAlerts(alert_history, result.date, result.hour, result.chain)
        IN /\ after = result.chain_alerts + 1
           /\ (after > top) =>
                 /\ result.chain_alerts >= ChainQuota(result.hourly_quota, result.chain)
                 /\ result.threshold = base + 20
                 /\ result.score >= base + 20
           /\ (result.threshold = base) => after <= top

C10_Witness ==
    /\ result.called /\ result.should_send
    /\ ChainAlerts(alert_history, result.date, result.hour, result.chain)
          > Ceil(result.hourly_quota * chain_quotas[result.chain], 100)
    /\ result.threshold = RefBase(result.hourly_quota, result.alerts_this_hour, result.minute) + 20

-----------------------------------------------------------------------------
(* Properties of Part II *)

Keys == MonitorChains \X Addresses

\* C1: between two daily resets no alert key is handed to telegram.send_alert
\* more than once, nor recorded in sent_alerts more than once, whatever the
\* interleaving of the producers and the consumer.
C1_NoKeyDispatchedTwice ==
    \A k \in Keys : CopiesIn(k, dispatched) <= 1 /\ CopiesIn(k, recorded) <= 1

\* a key enqueued twice before its first dispatch: sent once, its second tuple dropped
C1_Witness ==
    /\ um_event.kind = "dropped"
    /\ \E k \in sent_alerts : CopiesIn(k, dispatched) = 1 /\ CopiesIn(k, recorded) = 1

C11_NoCandidateLost ==
    [][ /\ \A t \in alert_queue \cup Range(holding_queue) :
              \/ t \in alert_queue' \cup Range(holding_queue')
              \/ /\ consumer.pc = "get" /\ alert_queue # {} /\ t = QueueGet(alert_queue)
                 /\ \/ /\ consumer'.pc = "sending" /\ consumer'.alert = t
                       /\ CopiesIn(t.key, dispatched') = CopiesIn(t.key, dispatched) + 1
                    \/ /\ um_event'.kind = "dropped" /\ t.key \in sent_alerts
        /\ (consumer.pc = "get" /\ consumer'.pc # "get" /\ alert_queue # {}) =>
              LET a == QueueGet(alert_queue)
              IN ( /\ a.key \notin sent_alerts
                   /\ \/ stats_alerts_sent_today >= daily_alert_target
                      \/ chain_alerts_sent[a.key[1]] >= um_chain_quotas[a.key[1]] )
                 => a \in Range(holding_queue')
        /\ alert_queue' \cap Range(holding_queue') = {}
        /\ Cardinality(Range(holding_queue')) = Len(holding_queue')
        /\ consumer'.alert \notin alert_queue' \cup Range(holding_queue')
      ]_vars

\* a candidate has just been held while another one waits and a third was dispatched
C11_Witness ==
    /\ um_event.kind \in {"held_daily", "held_chain"}
    /\ holding_queue # <<>>
    /\ alert_queue # {}
    /\ BagCardinality(dispatched) >= 1

\* C14: when the consumer acknowledges a dispatched tuple (task_done, after the
\* sleep), the tuple's key is in sent_alerts and _save_sent_alerts has
\* returned: unless that call logged an IOError, sent_alerts.json holds
\* exactly sent_alerts, the key included. The next tuple is taken only by a
\* consumer that holds no tuple.
C14_RecordedBeforeAck ==
    [][ /\ (consumer.pc = "sleeping" /\ consumer'.pc # "sleeping") =>
              /\ consumer.alert.key \in sent_alerts
              /\ save_failed \/ ( /\ consumer.alert.key \in sent_alerts_file
                                  /\ sent_alerts_file = sent_alerts
                                  /\ ~file_torn )
        /\ (consumer'.pc = "sending" /\ consumer.pc # "sending") =>
              /\ consumer.pc = "get"
              /\ consumer.alert = NoAlert
      ]_vars

\* a dispatched tuple waits for its acknowledgement, its key is on disk
C14_Witness ==
    /\ consumer.pc = "sleeping"
    /\ ~save_failed
    /\ consumer.alert.key \in sent_alerts_file
    /\ consumer.alert.key \in sent_alerts

\* C16 as stated: the re-queue of the held candidates runs before the quota
\* counters are cleared, so a reset that ends a day whose daily quota was used
\* up re-queues while the counter still shows the quota used up.
C16_Original ==
    [][ ( /\ consumer.pc = "loop" /\ last_alert_reset' # last_alert_reset
          /\ stats_alerts_sent_today >= daily_alert_target )
        => um_event'.quota_full
      ]_vars

\* C16 as amended: the daily reset clears the quota counters first and re-queues
\* the held candidates after that, within the same step of the consumer; after
\* the reset the counters are zero, the holding queue is empty and every
\* candidate that was held or queued is in the main queue.
C16_Amended ==
    [][ (consumer.pc = "loop" /\ last_alert_reset' # last_alert_reset) =>
          /\ stats_alerts_sent_today' = 0
          /\ chain_alerts_sent' = [c \in Chain |-> 0]
          /\ um_event'.kind = "reset"
          /\ um_event'.quota_full = (0 >= daily_alert_target)
          /\ um_event'.count = Len(holding_queue)
          /\ holding_queue' = <<>>
          /\ alert_queue' = alert_queue \cup Range(holding_queue)
      ]_vars

\* a reset after a day whose quota was used up, with held candidates re-queued
C16_Witness ==
    /\ um_event.kind = "reset"
    /\ um_event.count >= 1
    /\ ~um_event.quota_full
    /\ stats_alerts_sent_today = 0
    /\ consumer.pc = "get"
    /\ alert_queue # {}

\* C12: after a delivery has failed (an exception of the transport or a status
\* other than 200), the candidate is in the holding queue and its key is not in
\* sent_alerts.
C12_FailedDeliveryHeld ==
    \A e \in BagToSet(transport) :
        (~e.ok /\ e.key \notin Delivered) =>
            /\ e.key \notin sent_alerts
            /\ \E t \in Range(holding_queue) : t.ts = e.ts

C15_SaveFailureBlocksAck ==
    (save_failed /\ sent_alerts # {}) => consumer.pc = "sleeping"

\* C17: on one day a key is handed to telegram.send_alert at most once per run
\* of the process: a kill between the hand-over and the completed write of the
\* key lets the restarted process dispatch the key once more, and no more.
C17_OneDuplicatePerCrash ==
    \A k \in Keys : CopiesIn(k, dispatched) <= 1 + crashes

\* killed once before the key was on disk, the restarted process has sent it again
C17_Witness ==
    /\ crashes = 1
    /\ process = "up"
    /\ \E k \in Keys : CopiesIn(k, dispatched) = 2 /\ k \in sent_alerts_file

\* C18: the process restarted on the day of its last reset has in sent_alerts
\* every key of the last completed write of sent_alerts.json.
C18_FlushedNeverLost ==
    (um_event.kind = "restart" /\ um_event.count = 0) => flushed \subseteq sent_alerts

\* keys marked sent whose message Telegram has not accepted, and the converse
RecordedUndelivered == {k \in sent_alerts : k \notin Delivered}

DeliveredUnrecorded == {k \in Delivered : k \notin sent_alerts}

\* C19: when the process has ended, at most one candidate is marked sent without
\* its message delivered, or delivered without being marked.
C19_ShutdownWindow ==
    (process = "exited") =>
        Cardinality(RecordedUndelivered \cup DeliveredUnrecorded) <= 1

\* C20: when run() has returned after stop(), no candidate is left behind in the
\* holding queue (the code writes the holding queue nowhere, so a candidate
\* still in it when the process ends is lost).
C20_GracefulShutdownKeepsHeld ==
    (process = "exited") => holding_queue = <<>>

(***************************************************************************)
(* C21 - persisted day of the last reset                                   *)
(***************************************************************************)

\* C21: after a restart the day used for the daily reset is the persisted
\* last processed day: a restart on the same day keeps that day's sent
\* counter (it still equals the number of alerts recorded that day), and a
\* restart on a later day performs the reset (the dedup set is empty).
C21_RestartUsesPersistedDay ==
    um_event.kind = "restart" =>
        /\ um_event.count = 0 => stats_alerts_sent_today = BagCardinality(recorded)
        /\ um_event.count = 1 => sent_alerts = {}

(***************************************************************************)
(* C23 - the order of consumption                                          *)
(***************************************************************************)

\* the tuple (priority tier, negated score, enqueue time) as Python compares it
RankBefore(a, b) ==
    LET first == <<a.priority_num, a.neg_score, a.ts>>
        second == <<b.priority_num, b.neg_score, b.ts>>
    IN \E i \in 1..3 : /\ first[i] < second[i]
                       /\ \A j \in 1..(i - 1) : first[j] = second[j]

Taken == alert_queue \ alert_queue'

\* C23: the consumer always takes the least tuple of the queue in the order
\* (priority tier, negated score, enqueue time), and a held candidate is
\* re-queued at the reset with the tuple it had.
C23_LeastTupleFirst ==
    [][/\ Taken # {} =>
              \E t \in alert_queue :
                  /\ Taken = {t}
                  /\ \A b \in alert_queue \ {t} : RankBefore(t, b)
       /\ (consumer.pc = "loop" /\ um_event'.kind = "reset" /\ um_event' # um_event) =>
              alert_queue' = alert_queue \cup Range(holding_queue)]_vars

\* a tuple was taken while an older tuple of a lower rank waits
C23_Witness ==
    /\ consumer.pc = "sending"
    /\ \E b \in alert_queue : b.ts < consumer.alert.ts

(***************************************************************************)
(* C24 - the sent counters                                                 *)
(***************************************************************************)

RECURSIVE SumOver(_, _)
SumOver(f, S) ==
    IF S = {} THEN 0
    ELSE LET c == CHOOSE x \in S : TRUE IN f[c] + SumOver(f, S \ {c})

RecordedOn(chain) ==
    SumOver([k \in Keys |-> IF k[1] = chain THEN CopiesIn(k, recorded) ELSE 0], Keys)

\* C24: under every interleaving of the producers and the consumer no counter
\* update is lost or duplicated: alerts_sent_today equals the sum of
\* chain_alerts_sent over all chains and the number of dispatches since the
\* last reset (a dispatch whose send_alert has not returned is not counted yet),
\* and every chain's counter equals the dispatches of that chain.
C24_CountersAgree ==
    /\ stats_alerts_sent_today = SumOver(chain_alerts_sent, Chain)
    /\ stats_alerts_sent_today = BagCardinality(recorded)
    /\ \A chain \in MonitorChains : chain_alerts_sent[chain] = RecordedOn(chain)
    /\ BagCardinality(dispatched) =
          stats_alerts_sent_today + (IF consumer.pc = "sending" THEN 1 ELSE 0)

\* both chains have dispatched while producers were active
C24_Witness ==
    /\ chain_alerts_sent["solana"] = 1
    /\ chain_alerts_sent["bnb"] = 1
    /\ stats_alerts_sent_today = 2
    /\ \E p \in MonitorChains : producer[p].pc # "idle"

(***************************************************************************)
(* C22 - configuration errors                                              *)
(***************************************************************************)

\* C22: under a configuration whose chain percentages do not sum to 100 the
\* process refuses to run: no alert is ever dispatched.
C22_InvalidConfigurationRefused ==
    SumOver(chain_alert_distribution, Chain) # 100 => dispatched = EmptyBag

(***************************************************************************)
(* C25, C26 - progress of the dispatcher                                   *)
(***************************************************************************)

AllTuples ==
    {AlertTuple(score, ts, key) :
        score \in DeliveryScores, ts \in 0..MaxEnqueue, key \in Keys}

Waiting(t) == t \in alert_queue \/ t \in Range(holding_queue)

\* C25: with the dispatcher scheduled fairly and the daily resets recurring,
\* every enqueued candidate eventually leaves the main and the holding queue.
C25_EveryCandidateConsumed ==
    \A t \in AllTuples : Waiting(t) ~> ~Waiting(t)

\* C26: when the date has changed and the main queue is empty, the dispatcher
\* eventually performs the daily reset, which leaves the holding queue empty.
C26_ResetRunsOnEmptyQueue ==
    (um_date > last_alert_reset /\ alert_queue = {})
        ~> (last_alert_reset = um_date /\ holding_queue = <<>>)

\* the dispatcher waits on the empty queue, a candidate is held, the day is over
C26_Witness ==
    /\ consumer.pc = "get"
    /\ alert_queue = {}
    /\ holding_queue # <<>>
    /\ um_date > last_alert_reset

(***************************************************************************)
(* C27 - the quota state at the date rollover                              *)
(***************************************************************************)

\* C27: before the first admission of a day every sent count of the manager
\* reads zero for that day: the counts of the hour and of each chain in it,
\* and the total-sent-today counter alerts_sent_today.
C27_NewDayStartsAtZero ==
    AlertsOnDate(alert_history, now.date) = 0 =>
        /\ AlertsThisHour(alert_history, now.date, now.hour) = 0
        /\ \A chain \in ModelChains :
              ChainAlerts(alert_history, now.date, now.hour, chain) = 0
        /\ alerts_sent_today = 0

(***************************************************************************)
(* C28, C29, C30 - the ranges of the scores                                *)
(***************************************************************************)

\* C28: the total returned by calculate_score is in [0,100] for every
\* TokenMetrics, chain and time, and every value returned by score_token is in
\* [0,100] whatever the penalties and the bonuses.
C28_TotalWithinRange ==
    /\ calculated.called =>
          0 <= calculated.total_score /\ calculated.total_score <= 100 * TotalUnit
    /\ (scored.called /\ ~scored.raised) =>
          0 <= scored.total_score /\ scored.total_score <= 100

\* the weighted total exceeded 100 before the cap
C28_Witness ==
    /\ calculated.called
    /\ WeightedTotal(metrics, calculated.current_time) > 100 * TotalUnit
    /\ calculated.total_score = 100 * TotalUnit

\* the fields with a documented range are inside it, the others not negative
ValidMetrics(token) ==
    /\ token.audit_given => 0 <= token.audit_score /\ token.audit_score <= 100
    /\ -100 <= token.sentiment_score /\ token.sentiment_score <= 100
    /\ 0 <= token.community_engagement_score /\ token.community_engagement_score <= 100

\* C29: for every valid TokenMetrics each of the seven category scores
\* returned by calculate_score is in [0,100].
C29_CategoriesWithinRange ==
    (calculated.called /\ ValidMetrics(metrics)) =>
        \A category \in Categories :
            /\ 0 <= calculated.component_scores[category]
            /\ calculated.component_scores[category] <= 100 * Centi

\* a valid token with an audit score was scored, and a category reached 100
C29_Witness ==
    /\ calculated.called
    /\ ValidMetrics(metrics)
    /\ metrics.audit_given /\ metrics.audit_score = 100
    /\ calculated.component_scores.liquidity = 100 * Centi

\* C30: if the honeypot flag is true the security category score is exactly
\* 0, whatever the other security sub-points and the rug-pull indicators.
C30_HoneypotScoresZero ==
    (calculated.called /\ metrics.honeypot_check) =>
        calculated.component_scores.security = 0

\* a honeypot whose other security sub-points are all earned
C30_Witness ==
    /\ calculated.called
    /\ metrics.honeypot_check
    /\ metrics.contract_verified /\ metrics.mint_disabled /\ metrics.ownership_renounced
    /\ metrics.audit_given /\ metrics.audit_score = 100
    /\ metrics.rug_pull_indicators > 0
    /\ SecurityPoints(metrics) > 0
    /\ calculated.component_scores.security = 0

(***************************************************************************)
(* C31, C32, C33 - the scorers as functions of their arguments             *)
(***************************************************************************)

C32_ScoreDependsOnDataOnly ==
    \A i \in DOMAIN score_calls :
        score_calls[i].result = score_token(score_calls[i].data, NoCache, NoCache)

\* C33: scoring is total: score_token returns a score for every token_data,
\* 'holders' being absent, a count or a record {total, top_10_percentage}
\* (DRY_RUN not set).
C33_ScoringNeverRaises ==
    (scored.called /\ ~token_data.dry_run) => ~scored.raised

(***************************************************************************)
(* C34, C35, C38, C40 - the scores as functions of the metrics             *)
(***************************************************************************)

\* the values of a field over the inputs of its category
FieldValues(inputs, field) == {input[field] : input \in inputs}

\* the token with one field set to another value
WithField(token, field, value) == [token EXCEPT ![field] = value]

\* C34: with all other metrics fixed, raising a rewarded sub-metric never
\* lowers the category score: the social score is non-decreasing in
\* twitter_engagement_rate and in social_growth_rate, the liquidity score in
\* initial_liquidity, the holders score in holder_growth_rate and the volume
\* score in volume_1h.
C34_SubScoresMonotonic ==
    calculated.called =>
        /\ \A field \in {"twitter_engagement_rate", "social_growth_rate"} :
              \A lower \in FieldValues(SocialInputs, field) :
                  lower <= metrics[field] =>
                      score_social(WithField(metrics, field, lower))
                          <= calculated.component_scores.social
        /\ \A lower \in FieldValues(LiquidityInputs, "initial_liquidity") :
              lower <= metrics.initial_liquidity =>
                  score_liquidity(WithField(metrics, "initial_liquidity", lower))
                      <= calculated.component_scores.liquidity
        /\ \A lower \in FieldValues(HolderInputs, "holder_growth_rate") :
              lower <= metrics.holder_growth_rate =>
                  score_holders(WithField(metrics, "holder_growth_rate", lower))
                      <= calculated.component_scores.holders
        /\ \A lower \in FieldValues(VolumeInputs, "volume_1h") :
              lower <= metrics.volume_1h =>
                  score_volume(WithField(metrics, "volume_1h", lower))
                      <= calculated.component_scores.volume

\* C35: re-scoring the same metrics at a later now changes only the
\* time-decay term: the component scores are the same, the total is not
\* higher, and above 24 hours the multiplier is at its floor.
C35_LaterNeverScoresHigher ==
    calculated.called =>
        \A later \in CurrentTimes :
            later >= calculated.current_time =>
                /\ calculate_score(metrics, later).component_scores
                      = calculated.component_scores
                /\ calculate_score(metrics, later).total_score <= calculated.total_score
                /\ get_time_multiplier(metrics.launch_time, later)
                      <= get_time_multiplier(metrics.launch_time, calculated.current_time)
                /\ later - metrics.launch_time > 24 =>
                      get_time_multiplier(metrics.launch_time, later) = 18

\* a token scored in its first hour, below the cap, that scores strictly
\* less after 24 hours
C35_Witness ==
    /\ calculated.called
    /\ calculated.current_time = 1
    /\ calculated.total_score < 100 * TotalUnit
    /\ \E later \in CurrentTimes :
          /\ later - metrics.launch_time > 24
          /\ 0 < calculate_score(metrics, later).total_score
          /\ calculate_score(metrics, later).total_score < calculated.total_score

C40_HoneypotNeverAdmitted ==
    /\ (calculated.called /\ metrics.honeypot_check) =>
          calculated.total_score < lowest_base_threshold * TotalUnit
    /\ (scored.called /\ ~scored.raised /\ token_data.honeypot_check = "honeypot") =>
          scored.total_score < minimum_alert_score

(***************************************************************************)
(* C36 - the risk level of calculate_confidence                            *)
(***************************************************************************)

\* C36: for every component map the risk level is HIGH iff the security
\* component is below 40 or below 50, a missing one counting as 0; otherwise
\* MEDIUM iff three or more components are below 40; otherwise LOW.  The weak
\* points are exactly the components below 40, the strong points exactly
\* those from 70 upwards.
C36_RiskLevelFromComponents ==
    confidence.called =>
        LET components == confidence_args.component_scores
            below40 == {k \in DOMAIN components : components[k] < 4000}
            security == IF "security" \in DOMAIN components
                        THEN components["security"] ELSE 0
            high == security < 4000 \/ security < 5000
        IN /\ confidence.weak_points = below40
           /\ confidence.strong_points = {k \in DOMAIN components : components[k] >= 7000}
           /\ confidence.risk_level = "HIGH" <=> high
           /\ confidence.risk_level = "MEDIUM" <=> (~high /\ Cardinality(below40) >= 3)
           /\ confidence.risk_level = "LOW" <=> (~high /\ Cardinality(below40) < 3)

\* a map whose security score is exactly 50 and three of whose other scores
\* are weak, one being exactly 40 and not weak: MEDIUM
C36_Witness ==
    /\ confidence.called
    /\ "security" \in DOMAIN confidence_args.component_scores
    /\ confidence_args.component_scores["security"] = 5000
    /\ Cardinality(confidence.weak_points) = 3
    /\ \E k \in DOMAIN confidence_args.component_scores :
          confidence_args.component_scores[k] = 4000
    /\ confidence.risk_level = "MEDIUM"

(***************************************************************************)
(* C37 - the chain budgets                                                 *)
(***************************************************************************)

ScenarioBudgets == [c \in Chain |->
    CASE c = "solana" -> 200
      [] c = "ethereum" -> 125
      [] c = "bnb" -> 100
      [] c = "base" -> 75]

\* C37: with the daily target 500 and the split 40/25/20/15 the chain
\* budgets are exactly 200, 125, 100 and 75 and sum to 500; for percentages
\* summing to 100 each chain quota is floor(target x pct / 100) and the
\* quotas sum to at most the target.
C37_ChainBudgets ==
    /\ SumOver(chain_alert_distribution, Chain) = 100 =>
          /\ \A c \in Chain :
                um_chain_quotas[c] = (daily_alert_target * chain_alert_distribution[c]) \div 100
          /\ SumOver(um_chain_quotas, Chain) <= daily_alert_target
    /\ (daily_alert_target = 500 /\ chain_alert_distribution = ScenarioSplit) =>
          /\ um_chain_quotas = ScenarioBudgets
          /\ SumOver(um_chain_quotas, Chain) = 500
    /\ daily_limit = 500 =>
          /\ \A c \in Chain : get_status_expected(daily_limit, c) = ScenarioBudgets[c]
          /\ SumOver([c \in Chain |-> get_status_expected(daily_limit, c)], Chain) = 500

\* the monitor of the scenario, a day after its construction
C37_Witness ==
    /\ daily_alert_target = 500
    /\ chain_alert_distribution = ScenarioSplit
    /\ um_chain_quotas["solana"] = 200 /\ um_chain_quotas["base"] = 75
    /\ um_date = 1

\* quotas that sum to less than the target
C37_FloorLoses ==
    /\ SumOver(chain_alert_distribution, Chain) = 100
    /\ SumOver(um_chain_quotas, Chain) < daily_alert_target

(***************************************************************************)
(* C39 - the counters of the monitor against its quotas                    *)
(***************************************************************************)

\* C39: in UnifiedMonitor, after any sequence of dispatches, holds and daily
\* resets within one process run, alerts_sent_today is at most
\* daily_alert_target and chain_alerts_sent[c] is at most chain_quotas[c] for
\* every chain c.
C39_CountersWithinQuotas ==
    /\ stats_alerts_sent_today <= daily_alert_target
    /\ \A c \in Chain : chain_alerts_sent[c] <= um_chain_quotas[c]

\* after a daily reset the daily quota was used up again and an alert is held
C39_Witness ==
    /\ last_alert_reset > 0
    /\ daily_alert_target > 0
    /\ stats_alerts_sent_today = daily_alert_target
    /\ \E c \in Chain : chain_alerts_sent[c] > 0 /\ chain_alerts_sent[c] = um_chain_quotas[c]
    /\ holding_queue # <<>>

====
